---- MODULE Spec2Model ----
(***************************************************************************)
(* Flow-control core of the inference-request router: the WorkloadRegistry *)
(* (pkg/epp/datastore/workload_registry.go), the WorkloadAwarePolicy       *)
(* ordering policy (flowcontrol/framework/plugins/intraflow/               *)
(* workload_aware.go) and the request lifecycle around them.               *)
(*                                                                         *)
(* Time is counted in whole seconds.  Scores are exact rationals scaled by *)
(* ScoreScale; weights are kept in tenths.                                 *)
(***************************************************************************)
EXTENDS Integers, Sequences, FiniteSets, TLC

VARIABLES
    workloads,      \* WorkloadRegistry.workloads: workload id -> *WorkloadMetrics
    objs,           \* the WorkloadMetrics objects allocated so far
    now,            \* the wall clock (seconds)
    ticks,          \* how often the clock has advanced
    reaper,         \* the cleanup goroutine: position, captured now, keys left, runs
    deletedActive,  \* ActiveRequests of the entry most recently deleted (-1: none)
    floored,        \* a Completed has found ActiveRequests already at 0
    pc,             \* position of every goroutine
    loc,            \* locals of the registry call a goroutine is in
    ncalls,         \* registry calls started so far
    wired,          \* WorkloadAwarePolicy.workloadRegistry is set (not nil)
    req,            \* the admission attempts: workload, criticality, outcome, history
    queue,          \* the requests enqueued in the priority band
    dispatching,    \* the request the dispatch loop has removed and is dispatching
    items,          \* queue items handed to Less
    lessTable,      \* results of Less over all pairs of items, once evaluated
    scored,         \* inputs and result of the scoring or parsing call applied
    popOrder,       \* the items popped from the band, in the order of the pops
    policies,       \* the WorkloadAwarePolicy instances made: each one's workloadRegistry
    bands,          \* the priority bands: the policy instance each one orders with
    stopCleanup,    \* WorkloadRegistry.stopCleanup: "open" or "closed"
    cleanupTicker,  \* WorkloadRegistry.cleanupTicker: a tick is pending; Stop was called on it
    panicked        \* a goroutine has panicked: the process is gone

vars == <<workloads, objs, now, ticks, reaper, deletedActive, floored, pc, loc, ncalls,
          wired, req, queue, dispatching, items, lessTable, scored, popOrder,
          policies, bands, stopCleanup, cleanupTicker, panicked>>

callerVars == <<ncalls>>
bandVars   == <<policies, bands>>
lifeVars   == <<stopCleanup, cleanupTicker, panicked>>
policyVars == <<wired, items, lessTable, scored, popOrder, bandVars>>
admitVars  == <<req, queue, dispatching>>

(***************************************************************************)
(* Bounds of the model.                                                    *)
(***************************************************************************)
NumGoroutines == 2      \* goroutines calling the registry
MaxObjs       == 2      \* WorkloadMetrics objects ever allocated
MaxTicks      == 2      \* clock advances
MaxCalls      == 3      \* registry calls started
MaxCleanups   == 1      \* runs of the reaper's cleanup

Goroutines  == 1..NumGoroutines
WorkloadIDs == {"w1", "w2"}
NoObj       == 0
TickSteps   == {1, 60, 300}     \* by how much the clock may advance at once
WaitTimes   == {0, 60000}       \* wait times reported on dispatch (milliseconds)

(***************************************************************************)
(* Program constants.                                                      *)
(***************************************************************************)
windowDuration    == 60     \* NewWorkloadRegistry: 60 * time.Second
inactiveThreshold == 300    \* cleanup: 5 * time.Minute
DefaultEMAAlpha   == 2      \* 0.2, in tenths

(***************************************************************************)
(* WorkloadMetrics as LoadOrStore allocates it in WorkloadHandleNewRequest.*)
(***************************************************************************)
NewWorkloadMetrics(t) ==
    [ TotalRequests         |-> 0,
      ActiveRequests        |-> 0,
      SlidingWindowRequests |-> 0,
      WindowStartTime       |-> t,
      LastRequestTime       |-> t,
      AverageWaitTime       |-> 0,
      DispatchedCount       |-> 0,
      EMAAlpha              |-> 0 ]

NoLocals == [workloadID |-> "", metrics |-> NoObj, now |-> 0, waitTime |-> 0, ret |-> "idle"]

Locals(w, m, t, wt, ret) ==
    [workloadID |-> w, metrics |-> m, now |-> t, waitTime |-> wt, ret |-> ret]

(***************************************************************************)
(* WorkloadHandleNewRequest, first half: now := time.Now() and             *)
(* workloads.LoadOrStore(workloadID, &WorkloadMetrics{...}).               *)
(***************************************************************************)
NewRequestLoadOrStore(g, w, from, ret) ==
    /\ pc[g] = from
    /\ IF workloads[w] # NoObj
          THEN /\ loc' = [loc EXCEPT ![g] = Locals(w, workloads[w], now, 0, ret)]
               /\ UNCHANGED <<workloads, objs>>
          ELSE /\ Len(objs) < MaxObjs
               /\ objs' = Append(objs, NewWorkloadMetrics(now))
               /\ workloads' = [workloads EXCEPT ![w] = Len(objs) + 1]
               /\ loc' = [loc EXCEPT ![g] = Locals(w, Len(objs) + 1, now, 0, ret)]
    /\ pc' = [pc EXCEPT ![g] = "new_update"]
    /\ UNCHANGED floored

\* An update that leaves LastRequestTime as it was.
NewRequestMetricsKeepsLastRequestTime(m, t) ==
    LET reset == t - m.WindowStartTime > windowDuration IN
    [m EXCEPT !.TotalRequests         = @ + 1,
              !.ActiveRequests        = @ + 1,
              !.WindowStartTime       = IF reset THEN t ELSE @,
              !.SlidingWindowRequests = IF reset THEN 1 ELSE @ + 1]

\* An update that starts a new window at a count of 0.
NewRequestMetricsResetToZero(m, t) ==
    LET reset == t - m.WindowStartTime > windowDuration IN
    [m EXCEPT !.TotalRequests         = @ + 1,
              !.ActiveRequests        = @ + 1,
              !.LastRequestTime       = t,
              !.WindowStartTime       = IF reset THEN t ELSE @,
              !.SlidingWindowRequests = IF reset THEN 0 ELSE @ + 1]

(***************************************************************************)
(* The counters and the sliding window as WorkloadHandleNewRequest updates *)
(* them under metrics.mu, with the `now` captured before LoadOrStore.      *)
(***************************************************************************)
NewRequestMetrics(m, t) ==
    LET reset == t - m.WindowStartTime > windowDuration IN
    [m EXCEPT !.TotalRequests         = @ + 1,
              !.ActiveRequests        = @ + 1,
              !.LastRequestTime       = t,
              !.WindowStartTime       = IF reset THEN t ELSE @,
              !.SlidingWindowRequests = IF reset THEN 1 ELSE @ + 1]

(***************************************************************************)
(* WorkloadHandleNewRequest, second half: the section under metrics.mu.    *)
(***************************************************************************)
NewRequestUpdate(g) ==
    /\ pc[g] = "new_update"
    /\ objs' = [objs EXCEPT ![loc[g].metrics] = NewRequestMetrics(@, loc[g].now)]
    /\ pc' = [pc EXCEPT ![g] = loc[g].ret]
    /\ loc' = [loc EXCEPT ![g] = NoLocals]
    /\ UNCHANGED <<workloads, floored>>

(***************************************************************************)
(* WorkloadHandleCompletedRequest, first half: workloads.Load; an unknown  *)
(* workload returns at once.                                               *)
(***************************************************************************)
CompletedLoad(g, w, from, ret) ==
    /\ pc[g] = from
    /\ IF workloads[w] = NoObj
          THEN /\ pc' = [pc EXCEPT ![g] = ret]
               /\ loc' = [loc EXCEPT ![g] = NoLocals]
          ELSE /\ pc' = [pc EXCEPT ![g] = "completed_update"]
               /\ loc' = [loc EXCEPT ![g] = Locals(w, workloads[w], now, 0, ret)]
    /\ UNCHANGED <<workloads, objs, floored>>

\* A decrement without the floor at zero.
CompletedMetricsNoFloor(m) ==
    [m EXCEPT !.ActiveRequests = @ - 1]

(***************************************************************************)
(* The decrement of WorkloadHandleCompletedRequest, floored at zero.       *)
(***************************************************************************)
CompletedMetrics(m) ==
    IF m.ActiveRequests > 0
       THEN [m EXCEPT !.ActiveRequests = @ - 1]
       ELSE m

(***************************************************************************)
(* WorkloadHandleCompletedRequest, second half: the section under          *)
(* metrics.mu.                                                             *)
(***************************************************************************)
CompletedUpdate(g) ==
    /\ pc[g] = "completed_update"
    /\ objs' = [objs EXCEPT ![loc[g].metrics] = CompletedMetrics(@)]
    /\ floored' = (floored \/ objs[loc[g].metrics].ActiveRequests = 0)
    /\ pc' = [pc EXCEPT ![g] = loc[g].ret]
    /\ loc' = [loc EXCEPT ![g] = NoLocals]
    /\ UNCHANGED workloads

\* A Dispatched that stores a new entry for an unknown workload.
DispatchedLoadOrStore(g, w, waitTime, from, ret) ==
    /\ pc[g] = from
    /\ IF workloads[w] = NoObj
          THEN /\ Len(objs) < MaxObjs
               /\ objs' = Append(objs, NewWorkloadMetrics(now))
               /\ workloads' = [workloads EXCEPT ![w] = Len(objs) + 1]
               /\ pc' = [pc EXCEPT ![g] = ret]
               /\ loc' = [loc EXCEPT ![g] = NoLocals]
          ELSE /\ pc' = [pc EXCEPT ![g] = "dispatched_update"]
               /\ loc' = [loc EXCEPT ![g] = Locals(w, workloads[w], now, waitTime, ret)]
               /\ UNCHANGED <<workloads, objs>>
    /\ UNCHANGED floored

(***************************************************************************)
(* WorkloadHandleDispatchedRequest, first half: workloads.Load; an unknown *)
(* workload returns at once.                                               *)
(***************************************************************************)
DispatchedLoad(g, w, waitTime, from, ret) ==
    /\ pc[g] = from
    /\ IF workloads[w] = NoObj
          THEN /\ pc' = [pc EXCEPT ![g] = ret]
               /\ loc' = [loc EXCEPT ![g] = NoLocals]
          ELSE /\ pc' = [pc EXCEPT ![g] = "dispatched_update"]
               /\ loc' = [loc EXCEPT ![g] = Locals(w, workloads[w], now, waitTime, ret)]
    /\ UNCHANGED <<workloads, objs, floored>>

\* An EMA that blends the first sample with the zero average as well.
DispatchedMetricsBlendFirst(m, waitTime) ==
    LET alpha == IF m.EMAAlpha = 0 THEN DefaultEMAAlpha ELSE m.EMAAlpha IN
    [m EXCEPT !.EMAAlpha        = alpha,
              !.AverageWaitTime = (alpha * waitTime + (10 - alpha) * @) \div 10,
              !.DispatchedCount = @ + 1]

(***************************************************************************)
(* The EMA of WorkloadHandleDispatchedRequest: alpha defaults to 0.2, the  *)
(* first sample is taken as is, later ones are blended and truncated by    *)
(* the conversion to time.Duration.                                        *)
(***************************************************************************)
DispatchedMetrics(m, waitTime) ==
    LET alpha == IF m.EMAAlpha = 0 THEN DefaultEMAAlpha ELSE m.EMAAlpha IN
    [m EXCEPT !.EMAAlpha        = alpha,
              !.AverageWaitTime = IF m.DispatchedCount = 0
                                     THEN waitTime
                                     ELSE (alpha * waitTime + (10 - alpha) * @) \div 10,
              !.DispatchedCount = @ + 1]

(***************************************************************************)
(* WorkloadHandleDispatchedRequest, second half: the section under         *)
(* metrics.mu.                                                             *)
(***************************************************************************)
DispatchedUpdate(g) ==
    /\ pc[g] = "dispatched_update"
    /\ objs' = [objs EXCEPT ![loc[g].metrics] = DispatchedMetrics(@, loc[g].waitTime)]
    /\ pc' = [pc EXCEPT ![g] = loc[g].ret]
    /\ loc' = [loc EXCEPT ![g] = NoLocals]
    /\ UNCHANGED <<workloads, floored>>

(***************************************************************************)
(* cleanupLoop: the ticker fires and cleanup() starts: now := time.Now()   *)
(* and workloads.Range begins.                                             *)
(***************************************************************************)
CleanupStart ==
    /\ reaper.pc = "idle"
    /\ reaper.runs < MaxCleanups
    /\ reaper' = [pc |-> "range", now |-> now, todo |-> WorkloadIDs, key |-> "",
                  runs |-> reaper.runs + 1]
    /\ UNCHANGED <<workloads, objs, deletedActive, now, ticks, floored, pc, loc, callerVars, policyVars, admitVars, lifeVars>>

\* A predicate that takes twice the threshold for the age.
IsInactiveAfterTwiceThreshold(m, t) ==
    m.ActiveRequests = 0 /\ t - m.LastRequestTime > 2 * inactiveThreshold

(***************************************************************************)
(* cleanup's predicate, read under metrics.mu.RLock.                       *)
(***************************************************************************)
IsInactive(m, t) ==
    m.ActiveRequests = 0 /\ t - m.LastRequestTime > inactiveThreshold

(***************************************************************************)
(* One call of cleanup's Range callback up to metrics.mu.RUnlock: the      *)
(* entry of key k is read; the lock is released before any Delete.         *)
(***************************************************************************)
CleanupCheck(k) ==
    /\ reaper.pc = "range"
    /\ k \in reaper.todo
    /\ IF workloads[k] # NoObj /\ IsInactive(objs[workloads[k]], reaper.now)
          THEN reaper' = [reaper EXCEPT !.pc = "delete", !.key = k, !.todo = @ \ {k}]
          ELSE reaper' = [reaper EXCEPT !.todo = @ \ {k}]
    /\ UNCHANGED <<workloads, objs, deletedActive, now, ticks, floored, pc, loc, callerVars, policyVars, admitVars, lifeVars>>

(***************************************************************************)
(* The rest of the callback: workloads.Delete(key), whatever the key maps  *)
(* to by now.                                                              *)
(***************************************************************************)
CleanupDelete ==
    /\ reaper.pc = "delete"
    /\ deletedActive' = IF workloads[reaper.key] = NoObj
                           THEN deletedActive
                           ELSE objs[workloads[reaper.key]].ActiveRequests
    /\ workloads' = [workloads EXCEPT ![reaper.key] = NoObj]
    /\ reaper' = [reaper EXCEPT !.pc = "range", !.key = ""]
    /\ UNCHANGED <<objs, now, ticks, floored, pc, loc, callerVars, policyVars, admitVars, lifeVars>>

(***************************************************************************)
(* Range has visited every key: cleanup returns to cleanupLoop.            *)
(***************************************************************************)
CleanupEnd ==
    /\ reaper.pc = "range"
    /\ reaper.todo = {}
    /\ reaper' = [reaper EXCEPT !.pc = "idle"]
    /\ UNCHANGED <<workloads, objs, deletedActive, now, ticks, floored, pc, loc, callerVars, policyVars, admitVars, lifeVars>>

(***************************************************************************)
(* The wall clock advances.                                                *)
(***************************************************************************)
Tick ==
    /\ ticks < MaxTicks
    /\ \E d \in TickSteps : now' = now + d
    /\ ticks' = ticks + 1
    /\ UNCHANGED <<workloads, objs, reaper, deletedActive, floored, pc, loc,
                   callerVars, policyVars, admitVars, lifeVars>>

(***************************************************************************)
(* Goroutines calling the registry in any order: every call is its two     *)
(* halves, and other goroutines run between them.                          *)
(***************************************************************************)
CallNewRequest(g) ==
    /\ ncalls < MaxCalls
    /\ \E w \in WorkloadIDs : NewRequestLoadOrStore(g, w, "idle", "idle")
    /\ ncalls' = ncalls + 1
    /\ UNCHANGED <<now, ticks, reaper, deletedActive, policyVars, admitVars, lifeVars>>

CallCompleted(g) ==
    /\ ncalls < MaxCalls
    /\ \E w \in WorkloadIDs : CompletedLoad(g, w, "idle", "idle")
    /\ ncalls' = ncalls + 1
    /\ UNCHANGED <<now, ticks, reaper, deletedActive, policyVars, admitVars, lifeVars>>

CallDispatched(g) ==
    /\ ncalls < MaxCalls
    /\ \E w \in WorkloadIDs, wt \in WaitTimes : DispatchedLoad(g, w, wt, "idle", "idle")
    /\ ncalls' = ncalls + 1
    /\ UNCHANGED <<now, ticks, reaper, deletedActive, policyVars, admitVars, lifeVars>>

NewRequestFinish(g) ==
    /\ NewRequestUpdate(g)
    /\ UNCHANGED <<now, ticks, reaper, deletedActive, callerVars, policyVars, admitVars, lifeVars>>

CompletedFinish(g) ==
    /\ CompletedUpdate(g)
    /\ UNCHANGED <<now, ticks, reaper, deletedActive, callerVars, policyVars, admitVars, lifeVars>>

DispatchedFinish(g) ==
    /\ DispatchedUpdate(g)
    /\ UNCHANGED <<now, ticks, reaper, deletedActive, callerVars, policyVars, admitVars, lifeVars>>

(***************************************************************************)
(* DefaultWorkloadAwarePolicyConfig: the weights in tenths, the two        *)
(* normalisation caps.                                                     *)
(***************************************************************************)
WaitTimeWeight     == 4
CriticalityWeight  == 4
RequestRateWeight  == 2
MaxWaitTimeSeconds == 60
MaxRequestRate     == 100

DefaultCriticality == 3     \* computeScore: criticality := 3
MinCriticality     == 1
MaxCriticality     == 5
MsPerSecond        == 1000  \* AverageWaitTime is kept in milliseconds

Min(x, y) == IF x <= y THEN x ELSE y

(***************************************************************************)
(* Scores are exact rationals num/den in units of 1/ScoreScale, the scale  *)
(* at which one millisecond of average wait counts WaitUnit.               *)
(***************************************************************************)
MaxWaitMs  == MaxWaitTimeSeconds * MsPerSecond
ScoreScale == (10 * MaxWaitMs) \div WaitTimeWeight
WaitUnit   == (WaitTimeWeight * ScoreScale) \div (10 * MaxWaitMs)
CritUnit   == (CriticalityWeight * ScoreScale) \div (10 * MaxCriticality)
RateUnit   == (RequestRateWeight * ScoreScale) \div (10 * MaxRequestRate)

NoItem    == [nil |-> TRUE]
NoMetrics == [nilMetrics |-> TRUE]

\* A rate that divides the window count by the window's age however old.
GetRequestRateNoExpiry(w, t) ==
    IF workloads[w] = NoObj
       THEN [n |-> 0, secs |-> 1]
       ELSE LET m         == objs[workloads[w]]
                windowAge == t - m.WindowStartTime
            IN  IF windowAge = 0
                   THEN [n |-> 0, secs |-> 1]
                   ELSE [n |-> m.SlidingWindowRequests, secs |-> windowAge]

(***************************************************************************)
(* GetRequestRate at clock reading t, as the pair requests/seconds: 0 for  *)
(* an unknown workload, an expired window and a window of age 0.           *)
(***************************************************************************)
GetRequestRate(w, t) ==
    IF workloads[w] = NoObj
       THEN [n |-> 0, secs |-> 1]
       ELSE LET m         == objs[workloads[w]]
                windowAge == t - m.WindowStartTime
            IN  IF windowAge > windowDuration \/ windowAge = 0
                   THEN [n |-> 0, secs |-> 1]
                   ELSE [n |-> m.SlidingWindowRequests, secs |-> windowAge]

(***************************************************************************)
(* GetMetrics: a copy of the entry, or nil for an unknown workload.        *)
(***************************************************************************)
GetMetrics(w) ==
    IF workloads[w] = NoObj THEN NoMetrics ELSE objs[workloads[w]]

\* The composite score without its rate penalty.
ScoreOfNoRate(avgWaitMs, criticality, rate) ==
    [num |-> (WaitUnit * Min(avgWaitMs, MaxWaitMs) + CritUnit * criticality) * rate.secs,
     den |-> rate.secs]

\* The composite score without its wait-time term.
ScoreOfNoWait(avgWaitMs, criticality, rate) ==
    [num |-> (CritUnit * criticality) * rate.secs
               - RateUnit * Min(rate.n, MaxRequestRate * rate.secs),
     den |-> rate.secs]

(***************************************************************************)
(* The composite score of computeScore from its three inputs:              *)
(* min(avg/MaxWait, 1) * ww + crit/5 * cw - min(rate/MaxRate, 1) * rw.     *)
(***************************************************************************)
ScoreOf(avgWaitMs, criticality, rate) ==
    [num |-> (WaitUnit * Min(avgWaitMs, MaxWaitMs) + CritUnit * criticality) * rate.secs
               - RateUnit * Min(rate.n, MaxRequestRate * rate.secs),
     den |-> rate.secs]

\* The criticality moved to the nearest bound of [1, 5] instead.
EffectiveCriticalityClamped(item) ==
    IF ~item.hasCtx THEN DefaultCriticality
    ELSE IF item.criticality < MinCriticality THEN MinCriticality
    ELSE IF item.criticality > MaxCriticality THEN MaxCriticality
    ELSE item.criticality

\* The criticality taken as it comes, without the range check.
EffectiveCriticalityUnchecked(item) ==
    IF ~item.hasCtx THEN DefaultCriticality ELSE item.criticality

(***************************************************************************)
(* The criticality computeScore uses: 3 without a WorkloadContext and for  *)
(* a value outside [1, 5].                                                 *)
(***************************************************************************)
EffectiveCriticality(item) ==
    IF ~item.hasCtx THEN DefaultCriticality
    ELSE IF item.criticality < MinCriticality \/ item.criticality > MaxCriticality
            THEN DefaultCriticality
            ELSE item.criticality

\* The workload id taken from the item whether it has a context or not.
EffectiveWorkloadIDOfItem(item) == item.workloadID

(***************************************************************************)
(* The workload id computeScore uses: "default" without a WorkloadContext. *)
(***************************************************************************)
EffectiveWorkloadID(item) ==
    IF item.hasCtx THEN item.workloadID ELSE "default"

\* The average wait read from the registry of the process whatever the
\* policy's own registry reference.
AvgWaitTimeOfAnyRegistry(item) ==
    LET w == EffectiveWorkloadID(item) IN
    IF w \in DOMAIN workloads /\ GetMetrics(w) # NoMetrics
       THEN GetMetrics(w).AverageWaitTime
       ELSE 0

(***************************************************************************)
(* The average wait computeScore reads: the workload's EMA from the        *)
(* registry, 0 without a registry or without an entry.                     *)
(***************************************************************************)
AvgWaitTimeOf(item) ==
    LET w == EffectiveWorkloadID(item) IN
    IF wired /\ w \in DOMAIN workloads /\ GetMetrics(w) # NoMetrics
       THEN GetMetrics(w).AverageWaitTime
       ELSE 0

(***************************************************************************)
(* The rate computeScore reads; GetRequestRate takes its own clock reading *)
(* t, the `now` handed to computeScore is not used.                        *)
(***************************************************************************)
RequestRateOf(item, t) ==
    LET w == EffectiveWorkloadID(item) IN
    IF wired /\ w \in DOMAIN workloads
       THEN GetRequestRate(w, t)
       ELSE [n |-> 0, secs |-> 1]

(***************************************************************************)
(* computeScore(item, now), with t the clock as GetRequestRate reads it.   *)
(***************************************************************************)
computeScore(item, t) ==
    ScoreOf(AvgWaitTimeOf(item), EffectiveCriticality(item), RequestRateOf(item, t))

ScoreGreater(x, y) == x.num * y.den > y.num * x.den
ScoreEqual(x, y)   == x.num * y.den = y.num * x.den

\* Less by enqueue time alone, the scores left aside.
LessEnqueueTimeOnly(a, b, ta, tb) ==
    IF a = NoItem \/ b = NoItem THEN b = NoItem /\ a # NoItem
    ELSE a.enqueueTime < b.enqueueTime

\* Less with the later enqueue time first among equal scores.
LessLatestFirstOnTie(a, b, ta, tb) ==
    IF a = NoItem \/ b = NoItem THEN b = NoItem /\ a # NoItem
    ELSE LET scoreA == computeScore(a, ta)
             scoreB == computeScore(b, tb)
         IN  IF ~ScoreEqual(scoreA, scoreB)
                THEN ScoreGreater(scoreA, scoreB)
                ELSE a.enqueueTime > b.enqueueTime

\* Less with the comparison of the scores turned around.
LessLowestFirst(a, b, ta, tb) ==
    IF a = NoItem \/ b = NoItem THEN b = NoItem /\ a # NoItem
    ELSE LET scoreA == computeScore(a, ta)
             scoreB == computeScore(b, tb)
         IN  IF ~ScoreEqual(scoreA, scoreB)
                THEN ScoreGreater(scoreB, scoreA)
                ELSE a.enqueueTime < b.enqueueTime

\* Less with a nil item before any other.
LessNilFirst(a, b, ta, tb) ==
    IF a = NoItem /\ b = NoItem THEN FALSE
    ELSE IF a = NoItem THEN TRUE
    ELSE IF b = NoItem THEN FALSE
    ELSE LET scoreA == computeScore(a, ta)
             scoreB == computeScore(b, tb)
         IN  IF ~ScoreEqual(scoreA, scoreB)
                THEN ScoreGreater(scoreA, scoreB)
                ELSE a.enqueueTime < b.enqueueTime

(***************************************************************************)
(* Less(a, b): nil items last; the higher score first; equal scores by the *)
(* earlier enqueue time.  ta and tb are the clock readings of the two      *)
(* computeScore calls, tb no earlier than ta.                              *)
(***************************************************************************)
Less(a, b, ta, tb) ==
    IF a = NoItem /\ b = NoItem THEN FALSE
    ELSE IF a = NoItem THEN FALSE
    ELSE IF b = NoItem THEN TRUE
    ELSE LET scoreA == computeScore(a, ta)
             scoreB == computeScore(b, tb)
         IN  IF ~ScoreEqual(scoreA, scoreB)
                THEN ScoreGreater(scoreA, scoreB)
                ELSE a.enqueueTime < b.enqueueTime


InitRegistry ==
    /\ workloads = [w \in WorkloadIDs |-> NoObj]
    /\ objs = <<>>
    /\ now = 0
    /\ ticks = 0
    /\ stopCleanup = "open"
    /\ cleanupTicker = [pending |-> FALSE, stopped |-> FALSE]
    /\ panicked = FALSE
    /\ reaper = [pc |-> "idle", now |-> 0, todo |-> {}, key |-> "", runs |-> 0]
    /\ deletedActive = -1
    /\ floored = FALSE

Init ==
    /\ InitRegistry
    /\ pc = [g \in Goroutines |-> "idle"]
    /\ loc = [g \in Goroutines |-> NoLocals]
    /\ ncalls = 0
    /\ wired = TRUE
    /\ policies = <<>>
    /\ bands = <<>>
    /\ req = <<>>
    /\ queue = {}
    /\ dispatching = 0
    /\ items = <<>>
    /\ lessTable = <<>>
    /\ scored = <<>>
    /\ popOrder = <<>>

Next ==
    \/ \E g \in Goroutines : CallNewRequest(g)
    \/ \E g \in Goroutines : CallCompleted(g)
    \/ \E g \in Goroutines : CallDispatched(g)
    \/ \E g \in Goroutines : NewRequestFinish(g)
    \/ \E g \in Goroutines : CompletedFinish(g)
    \/ \E g \in Goroutines : DispatchedFinish(g)
    \/ CleanupStart
    \/ \E k \in WorkloadIDs : CleanupCheck(k)
    \/ CleanupDelete
    \/ CleanupEnd
    \/ Tick

Spec == Init /\ [][Next]_vars

(***************************************************************************)
(* The request lifecycle: one handler goroutine per admission attempt      *)
(* (StreamingServer.Process), the dispatch loop of the shard processor,    *)
(* the reaper and the clock.                                               *)
(***************************************************************************)
NumRequests   == 2      \* admission attempts
QueueCapacity == 1      \* items the band holds before it rejects

Requests      == 1..NumRequests
Dispatcher    == 0

(***************************************************************************)
(* The WorkloadContext of each admission attempt: requests 1 and 2 share a *)
(* workload and differ in criticality, any others come from a second one.  *)
(***************************************************************************)
WorkloadOf(r)    == IF r <= 2 THEN "w1" ELSE "w2"
CriticalityOf(r) == IF r = 1 THEN 1 ELSE 5
Outcomes      == {"Dispatched", "Rejected", "Cancelled", "TimedOut"}

NoRequest ==
    [workloadID |-> "", criticality |-> 0, enqueueTime |-> 0, outcome |-> "",
     popped |-> FALSE, finalized |-> 0, completedCalls |-> 0,
     dispatchedCalls |-> 0, dispatchedAt |-> 0, waitTime |-> 0]

(***************************************************************************)
(* The queue item of request r as the ordering policy sees it.             *)
(***************************************************************************)
ItemOf(r) ==
    [hasCtx |-> TRUE, workloadID |-> req[r].workloadID,
     criticality |-> req[r].criticality, enqueueTime |-> req[r].enqueueTime]

\* A Process that goes on to director.HandleRequest without the increment.
ProcessWithoutIncrement(r) ==
    /\ pc[r] = "start"
    /\ pc' = [pc EXCEPT ![r] = "admit"]
    /\ req' = [req EXCEPT ![r].workloadID = WorkloadOf(r),
                          ![r].criticality = CriticalityOf(r)]
    /\ UNCHANGED <<workloads, objs, floored, loc, now, ticks, reaper, deletedActive,
                   callerVars, policyVars, queue, dispatching, lifeVars>>

(***************************************************************************)
(* Process: the increment before director.HandleRequest, for a request     *)
(* whose WorkloadContext names its workload and criticality.               *)
(***************************************************************************)
ProcessIncrement(r) ==
    /\ NewRequestLoadOrStore(r, WorkloadOf(r), "start", "admit")
    /\ req' = [req EXCEPT ![r].workloadID = WorkloadOf(r),
                          ![r].criticality = CriticalityOf(r)]
    /\ UNCHANGED <<now, ticks, reaper, deletedActive, callerVars, policyVars,
                   queue, dispatching, lifeVars>>

\* An Admit that pushes the item before it finds the band at capacity.
AdmitEnqueueThenReject(r) ==
    /\ pc[r] = "admit"
    /\ IF Cardinality(queue) >= QueueCapacity
          THEN /\ req' = [req EXCEPT ![r].outcome = "Rejected", ![r].finalized = @ + 1,
                                     ![r].enqueueTime = now]
               /\ pc' = [pc EXCEPT ![r] = "cleanup"]
               /\ queue' = queue \cup {r}
          ELSE /\ req' = [req EXCEPT ![r].enqueueTime = now]
               /\ queue' = queue \cup {r}
               /\ pc' = [pc EXCEPT ![r] = "waiting"]
    /\ UNCHANGED <<workloads, objs, now, ticks, reaper, deletedActive, floored, loc,
                   callerVars, policyVars, dispatching, lifeVars>>

(***************************************************************************)
(* Admit: a band at capacity rejects at once, without enqueueing; else the *)
(* item is pushed and the caller blocks.                                   *)
(***************************************************************************)
Admit(r) ==
    /\ pc[r] = "admit"
    /\ IF Cardinality(queue) >= QueueCapacity
          THEN /\ req' = [req EXCEPT ![r].outcome = "Rejected", ![r].finalized = @ + 1]
               /\ pc' = [pc EXCEPT ![r] = "cleanup"]
               /\ UNCHANGED queue
          ELSE /\ req' = [req EXCEPT ![r].enqueueTime = now]
               /\ queue' = queue \cup {r}
               /\ pc' = [pc EXCEPT ![r] = "waiting"]
    /\ UNCHANGED <<workloads, objs, now, ticks, reaper, deletedActive, floored, loc,
                   callerVars, policyVars, dispatching, lifeVars>>

\* A cancellation that marks the item and leaves it in the queue.
CancelWaitNoRemoval(r) ==
    /\ pc[r] = "waiting"
    /\ r \in queue
    /\ \E o \in {"Cancelled", "TimedOut"} :
          req' = [req EXCEPT ![r].outcome = o, ![r].finalized = @ + 1]
    /\ pc' = [pc EXCEPT ![r] = "cleanup"]
    /\ UNCHANGED <<workloads, objs, now, ticks, reaper, deletedActive, floored, loc,
                   callerVars, policyVars, queue, dispatching, lifeVars>>

\* A cancellation that takes effect whether or not the item is still queued.
CancelWaitAnyTime(r) ==
    /\ pc[r] = "waiting"
    /\ \E o \in {"Cancelled", "TimedOut"} :
          req' = [req EXCEPT ![r].outcome = o, ![r].finalized = @ + 1]
    /\ queue' = queue \ {r}
    /\ pc' = [pc EXCEPT ![r] = "cleanup"]
    /\ UNCHANGED <<workloads, objs, now, ticks, reaper, deletedActive, floored, loc,
                   callerVars, policyVars, dispatching, lifeVars>>

(***************************************************************************)
(* The caller's context is cancelled or its deadline passes while the item *)
(* waits: the item is removed from the queue through its handle, which     *)
(* succeeds only while the item is still queued, and the caller gets the   *)
(* cancellation or timeout outcome.                                        *)
(***************************************************************************)
CancelWait(r) ==
    /\ pc[r] = "waiting"
    /\ r \in queue
    /\ \E o \in {"Cancelled", "TimedOut"} :
          req' = [req EXCEPT ![r].outcome = o, ![r].finalized = @ + 1]
    /\ queue' = queue \ {r}
    /\ pc' = [pc EXCEPT ![r] = "cleanup"]
    /\ UNCHANGED <<workloads, objs, now, ticks, reaper, deletedActive, floored, loc,
                   callerVars, policyVars, dispatching, lifeVars>>

(***************************************************************************)
(* The dispatch loop selects the head of the band: an item no other        *)
(* enqueued item is Less than at this moment, and removes it.              *)
(***************************************************************************)
DispatchPop ==
    /\ pc[Dispatcher] = "idle"
    /\ \E x \in queue :
          /\ \A y \in queue \ {x} : ~Less(ItemOf(y), ItemOf(x), now, now)
          /\ queue' = queue \ {x}
          /\ dispatching' = x
          /\ req' = [req EXCEPT ![x].popped = TRUE]
    /\ pc' = [pc EXCEPT ![Dispatcher] = "dispatch"]
    /\ UNCHANGED <<workloads, objs, now, ticks, reaper, deletedActive, floored, loc,
                   callerVars, policyVars, lifeVars>>

\* A dispatchItem that finalizes the item without the registry call.
DispatchItemWithoutCall ==
    /\ pc[Dispatcher] = "dispatch"
    /\ pc' = [pc EXCEPT ![Dispatcher] = "finalize"]
    /\ UNCHANGED <<workloads, objs, floored, loc, now, ticks, reaper, deletedActive,
                   callerVars, policyVars, admitVars, lifeVars>>

(***************************************************************************)
(* dispatchItem: waitTime := clock.Since(EnqueueTime()) and the call of    *)
(* WorkloadHandleDispatchedRequest.                                        *)
(***************************************************************************)
DispatchItem ==
    /\ DispatchedLoad(Dispatcher, req[dispatching].workloadID,
                      (now - req[dispatching].enqueueTime) * MsPerSecond,
                      "dispatch", "finalize")
    /\ req' = [req EXCEPT ![dispatching].dispatchedCalls = @ + 1,
                          ![dispatching].dispatchedAt = now,
                          ![dispatching].waitTime =
                              (now - req[dispatching].enqueueTime) * MsPerSecond]
    /\ UNCHANGED <<now, ticks, reaper, deletedActive, callerVars, policyVars,
                   queue, dispatching, lifeVars>>

(***************************************************************************)
(* dispatchItem: removedItem.FinalizeWithOutcome(QueueOutcomeDispatched).  *)
(***************************************************************************)
DispatchFinalize ==
    /\ pc[Dispatcher] = "finalize"
    /\ req' = [req EXCEPT ![dispatching].outcome = "Dispatched",
                          ![dispatching].finalized = @ + 1]
    /\ dispatching' = 0
    /\ pc' = [pc EXCEPT ![Dispatcher] = "idle"]
    /\ UNCHANGED <<workloads, objs, now, ticks, reaper, deletedActive, floored, loc,
                   callerVars, policyVars, queue, lifeVars>>

(***************************************************************************)
(* director.HandleRequest returns to Process once the item is dispatched.  *)
(***************************************************************************)
AdmitReturn(r) ==
    /\ pc[r] = "waiting"
    /\ req[r].outcome = "Dispatched"
    /\ pc' = [pc EXCEPT ![r] = "cleanup"]
    /\ UNCHANGED <<workloads, objs, now, ticks, reaper, deletedActive, floored, loc,
                   callerVars, policyVars, admitVars, lifeVars>>

\* A cleanup that decrements only for requests that were dispatched.
ProcessCleanupOnDispatchOnly(r) ==
    /\ IF req[r].outcome = "Dispatched"
          THEN /\ CompletedLoad(r, req[r].workloadID, "cleanup", "done")
               /\ req' = [req EXCEPT ![r].completedCalls = @ + 1]
          ELSE /\ pc[r] = "cleanup"
               /\ pc' = [pc EXCEPT ![r] = "done"]
               /\ UNCHANGED <<workloads, objs, floored, loc, req>>
    /\ UNCHANGED <<now, ticks, reaper, deletedActive, callerVars, policyVars,
                   queue, dispatching, lifeVars>>

(***************************************************************************)
(* Process: the deferred cleanup, run on every return: the decrement.      *)
(***************************************************************************)
ProcessCleanup(r) ==
    /\ CompletedLoad(r, req[r].workloadID, "cleanup", "done")
    /\ req' = [req EXCEPT ![r].completedCalls = @ + 1]
    /\ UNCHANGED <<now, ticks, reaper, deletedActive, callerVars, policyVars,
                   queue, dispatching, lifeVars>>

InitAdmit ==
    /\ InitRegistry
    /\ pc = [g \in {Dispatcher} \cup Requests |-> IF g = Dispatcher THEN "idle" ELSE "start"]
    /\ loc = [g \in {Dispatcher} \cup Requests |-> NoLocals]
    /\ ncalls = 0
    /\ wired = TRUE
    /\ policies = <<>>
    /\ bands = <<>>
    /\ req = [r \in Requests |-> NoRequest]
    /\ queue = {}
    /\ dispatching = 0
    /\ items = <<>>
    /\ lessTable = <<>>
    /\ scored = <<>>
    /\ popOrder = <<>>

NextAdmit ==
    \/ \E r \in Requests : ProcessIncrement(r)
    \/ \E r \in Requests : NewRequestFinish(r)
    \/ \E r \in Requests : Admit(r)
    \/ \E r \in Requests : CancelWait(r)
    \/ DispatchPop
    \/ DispatchItem
    \/ DispatchedFinish(Dispatcher)
    \/ DispatchFinalize
    \/ \E r \in Requests : AdmitReturn(r)
    \/ \E r \in Requests : ProcessCleanup(r)
    \/ \E r \in Requests : CompletedFinish(r)
    \/ CleanupStart
    \/ \E k \in WorkloadIDs : CleanupCheck(k)
    \/ CleanupDelete
    \/ CleanupEnd
    \/ Tick

SpecAdmit == InitAdmit /\ [][NextAdmit]_vars

(***************************************************************************)
(* The ordering policy on its own: a registry state, a clock reading and   *)
(* the items of one band are drawn, Less is evaluated over all pairs of    *)
(* items and the band is popped, the registry staying as it is.            *)
(***************************************************************************)
NumItems          == 3      \* items in the band
MaxWindowRequests == 2      \* requests a workload has in its window

ItemIds      == 1..NumItems
LessClocks   == {10, 60}    \* clock readings at which Less is called
ClockDrifts  == {0, 1}      \* clock advance between the two computeScore calls
Criticalities == {1, 5}

RECURSIVE AfterNewRequests(_, _, _)
AfterNewRequests(m, n, t) ==
    IF n = 0 THEN m ELSE AfterNewRequests(NewRequestMetrics(m, t), n - 1, t)

(***************************************************************************)
(* The entries a workload can have: none, or the entry after n requests at *)
(* time 0, with or without one dispatch recorded after a wait.             *)
(***************************************************************************)
EntryChoices ==
    {NoMetrics}
    \cup {AfterNewRequests(NewWorkloadMetrics(0), n, 0) : n \in 1..MaxWindowRequests}
    \cup {DispatchedMetrics(AfterNewRequests(NewWorkloadMetrics(0), n, 0), wt) :
             n \in 1..MaxWindowRequests, wt \in WaitTimes \ {0}}

ItemChoices(t) ==
    [hasCtx : {TRUE}, workloadID : WorkloadIDs, criticality : Criticalities,
     enqueueTime : {0, t}]

\* A number for each item choice: items are drawn in non-decreasing rank,
\* their numbering being immaterial to Less and to the pop.
ItemRank(it) ==
    (IF it.workloadID = "w1" THEN 0 ELSE 4)
    + (IF it.criticality = 1 THEN 0 ELSE 2)
    + (IF it.enqueueTime = 0 THEN 0 ELSE 1)

InitLess ==
    /\ now \in LessClocks
    /\ \E e \in [WorkloadIDs -> EntryChoices] :
          /\ objs = (IF e["w1"] = NoMetrics THEN <<>> ELSE <<e["w1"]>>)
                    \o (IF e["w2"] = NoMetrics THEN <<>> ELSE <<e["w2"]>>)
          /\ workloads = [w \in WorkloadIDs |->
                            IF e[w] = NoMetrics THEN NoObj
                            ELSE IF w = "w1" \/ e["w1"] = NoMetrics THEN 1 ELSE 2]
    /\ items \in [ItemIds -> ItemChoices(now)]
    /\ \A i, j \in ItemIds : i < j => ItemRank(items[i]) <= ItemRank(items[j])
    /\ lessTable = <<>>
    /\ scored = <<>>
    /\ popOrder = <<>>
    /\ queue = ItemIds
    /\ dispatching = 0
    /\ wired = TRUE
    /\ policies = <<>>
    /\ bands = <<>>
    /\ ticks = 0
    /\ stopCleanup = "open"
    /\ cleanupTicker = [pending |-> FALSE, stopped |-> FALSE]
    /\ panicked = FALSE
    /\ reaper = [pc |-> "idle", now |-> 0, todo |-> {}, key |-> "", runs |-> 0]
    /\ deletedActive = -1
    /\ floored = FALSE
    /\ pc = <<>>
    /\ loc = <<>>
    /\ ncalls = 0
    /\ req = <<>>

(***************************************************************************)
(* Less is called on every pair of items; in each call the clock advances  *)
(* by d between the computeScore of a and that of b.                       *)
(***************************************************************************)
EvalLess(d) ==
    /\ lessTable' = [drift |-> d,
                     less  |-> [a \in ItemIds, b \in ItemIds |->
                                   Less(items[a], items[b], now, now + d)]]
    /\ UNCHANGED <<workloads, objs, now, ticks, reaper, deletedActive, floored, pc, loc,
                   callerVars, wired, bandVars, items, scored, popOrder, admitVars, lifeVars>>

(***************************************************************************)
(* The band is popped: an item no other enqueued item is Less than at this *)
(* moment leaves the queue.                                                *)
(***************************************************************************)
PopHead ==
    /\ \E x \in queue :
          /\ \A y \in queue \ {x} : ~Less(items[y], items[x], now, now)
          /\ queue' = queue \ {x}
          /\ dispatching' = x
    /\ UNCHANGED <<workloads, objs, now, ticks, reaper, deletedActive, floored, pc, loc,
                   callerVars, policyVars, req, lifeVars>>

NextLess ==
    \/ \E d \in ClockDrifts : EvalLess(d)
    \/ PopHead

SpecLess == InitLess /\ [][NextLess]_vars

(***************************************************************************)
(* The scoring arithmetic and the header parsing as pure functions: the    *)
(* registry is drawn as for Less, one call is applied to drawn inputs and  *)
(* its inputs and result are kept in scored.                               *)
(***************************************************************************)
AvgWaitChoices  == {0, 30000, 60000, 90000}     \* AverageWaitTime, milliseconds
RateChoices     ==
    {[n |-> 0, secs |-> 1], [n |-> 1, secs |-> 60], [n |-> 50, secs |-> 1],
     [n |-> 100, secs |-> 1], [n |-> 150, secs |-> 1]}
ProbeCriticalities == {-5, -1, 0, 1, 2, 3, 4, 5, 6, 10}
ProbeItems ==
    [hasCtx : BOOLEAN, workloadID : WorkloadIDs, criticality : ProbeCriticalities,
     enqueueTime : {0}]

\* The x-workload-context header: absent, empty, not JSON, or a JSON object
\* (a criticality field left out of the object decodes as 0).
HeaderChoices ==
    [json : {"absent", "empty", "invalid"}, workloadID : {""}, criticality : {0}]
    \cup [json : {"object"}, workloadID : {"", "w1"}, criticality : ProbeCriticalities]

RateLess(x, y) == x.n * y.secs < y.n * x.secs

(***************************************************************************)
(* extractWorkloadContext: an empty header value and unparseable JSON give *)
(* a generated id and criticality 3; a criticality outside [1, 5] is set   *)
(* to 3; an empty workload_id is replaced by a generated id.               *)
(***************************************************************************)
extractWorkloadContext(h, t) ==
    IF h.json \in {"absent", "empty"}
       THEN [hasCtx |-> TRUE, workloadID |-> "unknown-" \o ToString(t),
             criticality |-> DefaultCriticality]
    ELSE IF h.json = "invalid"
       THEN [hasCtx |-> TRUE, workloadID |-> "invalid-" \o ToString(t),
             criticality |-> DefaultCriticality]
    ELSE [hasCtx      |-> TRUE,
          workloadID  |-> IF h.workloadID = "" THEN "empty-" \o ToString(t)
                                               ELSE h.workloadID,
          criticality |-> IF h.criticality < MinCriticality
                             \/ h.criticality > MaxCriticality
                             THEN DefaultCriticality
                             ELSE h.criticality]

InitScore ==
    /\ now \in LessClocks
    /\ \E e \in [WorkloadIDs -> EntryChoices] :
          /\ objs = (IF e["w1"] = NoMetrics THEN <<>> ELSE <<e["w1"]>>)
                    \o (IF e["w2"] = NoMetrics THEN <<>> ELSE <<e["w2"]>>)
          /\ workloads = [w \in WorkloadIDs |->
                            IF e[w] = NoMetrics THEN NoObj
                            ELSE IF w = "w1" \/ e["w1"] = NoMetrics THEN 1 ELSE 2]
    /\ items = <<>>
    /\ lessTable = <<>>
    /\ scored = <<>>
    /\ popOrder = <<>>
    /\ queue = {}
    /\ dispatching = 0
    /\ wired = TRUE
    /\ policies = <<>>
    /\ bands = <<>>
    /\ ticks = 0
    /\ stopCleanup = "open"
    /\ cleanupTicker = [pending |-> FALSE, stopped |-> FALSE]
    /\ panicked = FALSE
    /\ reaper = [pc |-> "idle", now |-> 0, todo |-> {}, key |-> "", runs |-> 0]
    /\ deletedActive = -1
    /\ floored = FALSE
    /\ pc = <<>>
    /\ loc = <<>>
    /\ ncalls = 0
    /\ req = <<>>

ScoreUnchanged ==
    UNCHANGED <<workloads, objs, now, ticks, reaper, deletedActive, floored, pc, loc,
                callerVars, wired, bandVars, items, lessTable, popOrder, admitVars, lifeVars>>

(***************************************************************************)
(* The score is computed for two inputs of one criticality.                *)
(***************************************************************************)
ScorePair ==
    /\ scored = <<>>
    /\ \E c \in MinCriticality..MaxCriticality :
       \E w1, w2 \in AvgWaitChoices :
       \E r1, r2 \in RateChoices :
          scored' = [kind |-> "pair", criticality |-> c,
                     w1 |-> w1, r1 |-> r1, s1 |-> ScoreOf(w1, c, r1),
                     w2 |-> w2, r2 |-> r2, s2 |-> ScoreOf(w2, c, r2)]
    /\ ScoreUnchanged

(***************************************************************************)
(* computeScore is called on an item.                                      *)
(***************************************************************************)
ScoreItem ==
    /\ scored = <<>>
    /\ \E item \in ProbeItems :
          scored' = [kind |-> "item", item |-> item,
                     criticality |-> EffectiveCriticality(item),
                     score |-> computeScore(item, now)]
    /\ ScoreUnchanged

(***************************************************************************)
(* extractWorkloadContext is called on a request's headers.                *)
(***************************************************************************)
ExtractContext ==
    /\ scored = <<>>
    /\ \E h \in HeaderChoices :
          scored' = [kind |-> "header", header |-> h,
                     ctx |-> extractWorkloadContext(h, now)]
    /\ ScoreUnchanged

NextScore ==
    \/ ScorePair
    \/ ScoreItem
    \/ ExtractContext

SpecScore == InitScore /\ [][NextScore]_vars

(***************************************************************************)
(* The end-to-end scenario: items A (criticality 1), B (criticality 5) and *)
(* C (criticality 3) are admitted to one band in any order while dispatch  *)
(* is held back, then popped one by one.  The workloads have no dispatch   *)
(* recorded (average wait 0) and may have had earlier requests in their    *)
(* window.                                                                 *)
(***************************************************************************)
BandItems  == {"A", "B", "C"}
BandCriticality(i) == IF i = "A" THEN 1 ELSE IF i = "B" THEN 5 ELSE 3
BandClocks == {1, 10}
EarlierRequests == {1, 2, 100}    \* requests already in a workload's window
\* The entry after n WorkloadHandleNewRequest calls at instant t.
AfterRequestsAt(n, t) ==
    [NewWorkloadMetrics(t) EXCEPT !.TotalRequests = n, !.ActiveRequests = n,
                                  !.SlidingWindowRequests = n]
BandEntryChoices ==
    {NoMetrics} \cup {AfterRequestsAt(n, 0) : n \in EarlierRequests}

InitBand ==
    /\ now \in BandClocks
    /\ \E e \in [WorkloadIDs -> BandEntryChoices] :
          /\ objs = (IF e["w1"] = NoMetrics THEN <<>> ELSE <<e["w1"]>>)
                    \o (IF e["w2"] = NoMetrics THEN <<>> ELSE <<e["w2"]>>)
          /\ workloads = [w \in WorkloadIDs |->
                            IF e[w] = NoMetrics THEN NoObj
                            ELSE IF w = "w1" \/ e["w1"] = NoMetrics THEN 1 ELSE 2]
    /\ \E wl \in [BandItems -> WorkloadIDs] :
          items = [i \in BandItems |->
                     [hasCtx |-> TRUE, workloadID |-> wl[i],
                      criticality |-> BandCriticality(i),
                      enqueueTime |-> 0, enqueueOrder |-> 0]]
    /\ lessTable = <<>>
    /\ scored = <<>>
    /\ popOrder = <<>>
    /\ queue = {}
    /\ dispatching = 0
    /\ wired = TRUE
    /\ policies = <<>>
    /\ bands = <<>>
    /\ ticks = 0
    /\ stopCleanup = "open"
    /\ cleanupTicker = [pending |-> FALSE, stopped |-> FALSE]
    /\ panicked = FALSE
    /\ reaper = [pc |-> "idle", now |-> 0, todo |-> {}, key |-> "", runs |-> 0]
    /\ deletedActive = -1
    /\ floored = FALSE
    /\ pc = <<>>
    /\ loc = <<>>
    /\ ncalls = 0
    /\ req = <<>>

(***************************************************************************)
(* Process and Admit for item i: WorkloadHandleNewRequest on its workload  *)
(* (the entry is created on first sight), then the push into the band.     *)
(***************************************************************************)
BandEnqueue(i) ==
    /\ items[i].enqueueOrder = 0
    /\ LET w == items[i].workloadID IN
       IF workloads[w] = NoObj
          THEN /\ objs' = Append(objs, NewRequestMetrics(NewWorkloadMetrics(now), now))
               /\ workloads' = [workloads EXCEPT ![w] = Len(objs) + 1]
          ELSE /\ objs' = [objs EXCEPT ![workloads[w]] = NewRequestMetrics(@, now)]
               /\ UNCHANGED workloads
    /\ items' = [items EXCEPT ![i].enqueueTime = now,
                              ![i].enqueueOrder = Cardinality(queue) + 1]
    /\ queue' = queue \cup {i}
    /\ UNCHANGED <<now, ticks, reaper, deletedActive, floored, pc, loc, callerVars,
                   wired, bandVars, lessTable, scored, popOrder, req, dispatching, lifeVars>>

(***************************************************************************)
(* Once the three items are enqueued the band is popped: an item no other  *)
(* enqueued item is Less than leaves the queue.                            *)
(***************************************************************************)
BandPop ==
    /\ \A i \in BandItems : items[i].enqueueOrder # 0
    /\ \E x \in queue :
          /\ \A y \in queue \ {x} : ~Less(items[y], items[x], now, now)
          /\ queue' = queue \ {x}
          /\ dispatching' = x
          /\ popOrder' = Append(popOrder, x)
    /\ UNCHANGED <<workloads, objs, now, ticks, reaper, deletedActive, floored, pc, loc,
                   callerVars, wired, bandVars, items, lessTable, scored, req, lifeVars>>

NextBand ==
    \/ \E i \in BandItems : BandEnqueue(i)
    \/ BandPop

SpecBand == InitBand /\ [][NextBand]_vars

(***************************************************************************)
(* A band under continuing arrivals: an item of criticality 1 of workload  *)
(* w1 is enqueued, items of criticality 5 of workload w2 arrive one after  *)
(* the other, the clock advances and the dispatch loop pops the head and   *)
(* dispatches it.                                                          *)
(***************************************************************************)
MaxArrivals == 3      \* items of criticality 5 arriving after the first item
LowItem     == 0
Arrivals    == 1..MaxArrivals
StarveItems == {LowItem} \cup Arrivals
NotArrived  ==
    [hasCtx |-> TRUE, workloadID |-> "w2", criticality |-> 5, enqueueTime |-> 0,
     enqueued |-> FALSE, popped |-> FALSE, poppedAt |-> 0]

InitStarve ==
    /\ now = 0
    /\ \E e \in EntryChoices :
          /\ objs = <<NewRequestMetrics(NewWorkloadMetrics(0), 0)>>
                    \o (IF e = NoMetrics THEN <<>> ELSE <<e>>)
          /\ workloads = [w \in WorkloadIDs |->
                            IF w = "w1" THEN 1 ELSE IF e = NoMetrics THEN NoObj ELSE 2]
    /\ items = [i \in StarveItems |->
                  IF i = LowItem
                     THEN [NotArrived EXCEPT !.workloadID = "w1", !.criticality = 1,
                                             !.enqueued = TRUE]
                     ELSE NotArrived]
    /\ queue = {LowItem}
    /\ lessTable = <<>>
    /\ scored = <<>>
    /\ popOrder = <<>>
    /\ dispatching = 0
    /\ wired = TRUE
    /\ policies = <<>>
    /\ bands = <<>>
    /\ ticks = 0
    /\ stopCleanup = "open"
    /\ cleanupTicker = [pending |-> FALSE, stopped |-> FALSE]
    /\ panicked = FALSE
    /\ reaper = [pc |-> "idle", now |-> 0, todo |-> {}, key |-> "", runs |-> 0]
    /\ deletedActive = -1
    /\ floored = FALSE
    /\ pc = <<>>
    /\ loc = <<>>
    /\ ncalls = 0
    /\ req = <<>>

(***************************************************************************)
(* The next item of criticality 5 arrives: WorkloadHandleNewRequest on its *)
(* workload, then the push into the band.                                  *)
(***************************************************************************)
StarveArrive(h) ==
    /\ ~items[h].enqueued
    /\ \A g \in Arrivals : g < h => items[g].enqueued
    /\ LET w == items[h].workloadID IN
       IF workloads[w] = NoObj
          THEN /\ objs' = Append(objs, NewRequestMetrics(NewWorkloadMetrics(now), now))
               /\ workloads' = [workloads EXCEPT ![w] = Len(objs) + 1]
          ELSE /\ objs' = [objs EXCEPT ![workloads[w]] = NewRequestMetrics(@, now)]
               /\ UNCHANGED workloads
    /\ items' = [items EXCEPT ![h].enqueued = TRUE, ![h].enqueueTime = now]
    /\ queue' = queue \cup {h}
    /\ UNCHANGED <<now, ticks, reaper, deletedActive, floored, pc, loc, callerVars,
                   wired, bandVars, lessTable, scored, popOrder, req, dispatching, lifeVars>>

(***************************************************************************)
(* The dispatch loop pops the head of the band, an item no other enqueued  *)
(* item is Less than, and dispatchItem records its wait with               *)
(* WorkloadHandleDispatchedRequest.                                        *)
(***************************************************************************)
StarvePop ==
    /\ \E x \in queue :
          /\ \A y \in queue \ {x} : ~Less(items[y], items[x], now, now)
          /\ queue' = queue \ {x}
          /\ dispatching' = x
          /\ popOrder' = Append(popOrder, x)
          /\ items' = [items EXCEPT ![x].popped = TRUE, ![x].poppedAt = now]
          /\ objs' = [objs EXCEPT ![workloads[items[x].workloadID]] =
                         DispatchedMetrics(@, (now - items[x].enqueueTime) * MsPerSecond)]
    /\ UNCHANGED <<workloads, now, ticks, reaper, deletedActive, floored, pc, loc,
                   callerVars, wired, bandVars, lessTable, scored, req, lifeVars>>

NextStarve ==
    \/ \E h \in Arrivals : StarveArrive(h)
    \/ StarvePop
    \/ Tick

SpecStarve == InitStarve /\ [][NextStarve]_vars

(***************************************************************************)
(* Wiring of the WorkloadRegistry into the ordering policies of the        *)
(* priority bands.  The plugin factory makes every WorkloadAwarePolicy     *)
(* with a nil registry; the runner then calls SetWorkloadRegistry on the   *)
(* policy of every configured band and of the default band template, and   *)
(* only then builds the flow registry, which creates the band of an        *)
(* unconfigured priority from the template on first use.                   *)
(***************************************************************************)
NumPriorities == 3      \* priority levels a request may carry

Priorities          == 1..NumPriorities
DefaultPriorityBand == 0                  \* the key of the default band template
NilRegistry         == "nil"
TheRegistry         == "registry"         \* ds.GetWorkloadRegistry()
NoBand              == [policy |-> 0, dynamic |-> FALSE]

\* init: the registered factory returns NewWorkloadAwarePolicyWithDefaults(nil).
NewWorkloadAwarePolicyWithDefaults(registry) == registry

\* SetWorkloadRegistry on the policy instance i.
SetWorkloadRegistry(i, registry) == [policies EXCEPT ![i] = registry]

StaticBands == {p \in Priorities : bands[p] # NoBand /\ ~bands[p].dynamic}

InitWire ==
    /\ policies = <<NewWorkloadAwarePolicyWithDefaults(NilRegistry)>>
    /\ bands = [p \in Priorities \cup {DefaultPriorityBand} |->
                   IF p = DefaultPriorityBand THEN [policy |-> 1, dynamic |-> FALSE]
                                              ELSE NoBand]
    /\ pc = "config"
    /\ loc = {}
    /\ wired = FALSE
    /\ scored = <<>>
    /\ workloads = [w \in WorkloadIDs |-> NoObj]
    /\ objs = <<>>
    /\ now = 0
    /\ ticks = 0
    /\ stopCleanup = "open"
    /\ cleanupTicker = [pending |-> FALSE, stopped |-> FALSE]
    /\ panicked = FALSE
    /\ reaper = [pc |-> "idle", now |-> 0, todo |-> {}, key |-> "", runs |-> 0]
    /\ deletedActive = -1
    /\ floored = FALSE
    /\ ncalls = 0
    /\ req = <<>>
    /\ queue = {}
    /\ dispatching = 0
    /\ items = <<>>
    /\ lessTable = <<>>
    /\ popOrder = <<>>

\* The configuration names a band for priority p; its ordering policy is an
\* instance the plugin system has already made or one the factory makes now.
ConfigBand(p) ==
    /\ pc = "config"
    /\ bands[p] = NoBand
    /\ \/ \E i \in 1..Len(policies) :
             /\ bands' = [bands EXCEPT ![p] = [policy |-> i, dynamic |-> FALSE]]
             /\ UNCHANGED policies
       \/ /\ policies' = Append(policies, NewWorkloadAwarePolicyWithDefaults(NilRegistry))
          /\ bands' = [bands EXCEPT ![p] = [policy |-> Len(policies) + 1,
                                            dynamic |-> FALSE]]
    /\ UNCHANGED <<workloads, objs, now, ticks, reaper, deletedActive, floored, pc, loc,
                   callerVars, wired, items, lessTable, scored, popOrder, admitVars, lifeVars>>

\* The runner starts its injection loop over the configured bands.
StartInjection ==
    /\ pc = "config"
    /\ pc' = "inject"
    /\ loc' = StaticBands
    /\ UNCHANGED <<workloads, objs, now, ticks, reaper, deletedActive, floored,
                   callerVars, policyVars, admitVars, lifeVars>>

\* One turn of the runner's loop over the configured bands; after the loop
\* the default band template's policy is injected and the flow registry is
\* built.
InjectWorkloadRegistry ==
    /\ pc = "inject"
    /\ IF loc # {}
          THEN \E p \in loc :
                  /\ policies' = SetWorkloadRegistry(bands[p].policy, TheRegistry)
                  /\ loc' = loc \ {p}
                  /\ UNCHANGED pc
          ELSE /\ policies' = SetWorkloadRegistry(bands[DefaultPriorityBand].policy,
                                                  TheRegistry)
               /\ pc' = "serving"
               /\ UNCHANGED loc
    /\ UNCHANGED <<workloads, objs, now, ticks, reaper, deletedActive, floored,
                   callerVars, wired, items, lessTable, scored, popOrder, bands,
                   admitVars, lifeVars>>

\* A band creation that asks the plugin factory for a policy of its own.
ensurePriorityBandNewPolicy(p) ==
    /\ pc = "serving"
    /\ bands[p] = NoBand
    /\ policies' = Append(policies, NewWorkloadAwarePolicyWithDefaults(NilRegistry))
    /\ bands' = [bands EXCEPT ![p] = [policy |-> Len(policies) + 1, dynamic |-> TRUE]]
    /\ UNCHANGED <<workloads, objs, now, ticks, reaper, deletedActive, floored, pc, loc,
                   callerVars, wired, items, lessTable, scored, popOrder, admitVars, lifeVars>>

\* A request of an unconfigured priority arrives: its band is created from
\* the default band template, whose OrderingPolicy pointer it copies.
ensurePriorityBand(p) ==
    /\ pc = "serving"
    /\ bands[p] = NoBand
    /\ bands' = [bands EXCEPT ![p] = [policy |-> bands[DefaultPriorityBand].policy,
                                      dynamic |-> TRUE]]
    /\ UNCHANGED <<workloads, objs, now, ticks, reaper, deletedActive, floored, pc, loc,
                   callerVars, wired, items, lessTable, scored, popOrder, policies,
                   admitVars, lifeVars>>

\* The band of priority p orders its queue: its policy's Less reads the
\* policy's registry reference.
OrderBand(p) ==
    /\ pc = "serving"
    /\ bands[p] # NoBand
    /\ scored' = [priority |-> p, policy |-> bands[p].policy,
                  registry |-> policies[bands[p].policy]]
    /\ wired' = (policies[bands[p].policy] # NilRegistry)
    /\ UNCHANGED <<workloads, objs, now, ticks, reaper, deletedActive, floored, pc, loc,
                   callerVars, items, lessTable, popOrder, bandVars, admitVars, lifeVars>>

NextWire ==
    \/ \E p \in Priorities : ConfigBand(p)
    \/ StartInjection
    \/ InjectWorkloadRegistry
    \/ \E p \in Priorities : ensurePriorityBand(p)
    \/ \E p \in Priorities : OrderBand(p)

SpecWire == InitWire /\ [][NextWire]_vars

(***************************************************************************)
(* Less against the injection: a Less call reads the policy's registry     *)
(* reference once in each of its two computeScore calls, and               *)
(* SetWorkloadRegistry assigns the reference without a lock.  The flow     *)
(* registry is built, and the flow controller started, after the runner's  *)
(* injection.                                                              *)
(***************************************************************************)
NoLess == <<>>

\* A flow controller that is started before the runner injects.
FlowControllerStartedEarly == pc \in {"inject", "serving"}

\* The runner has built the flow registry and started the flow controller.
FlowControllerStarted == pc = "serving"

\* Less(a, b) on the band of priority p: computeScore(a) reads
\* p.workloadRegistry.
LessScoreA(p) ==
    /\ FlowControllerStarted
    /\ bands[p] # NoBand
    /\ IF scored = NoLess THEN TRUE ELSE scored.state = "returned"
    /\ scored' = [priority |-> p, policy |-> bands[p].policy, state |-> "scoredA",
                  registryA |-> policies[bands[p].policy], registryB |-> NilRegistry]
    /\ UNCHANGED <<workloads, objs, now, ticks, reaper, deletedActive, floored, pc, loc,
                   callerVars, wired, items, lessTable, popOrder, bandVars, admitVars,
                   lifeVars>>

\* computeScore(b) reads p.workloadRegistry again, and Less returns.
LessScoreB ==
    /\ IF scored = NoLess THEN FALSE ELSE scored.state = "scoredA"
    /\ scored' = [scored EXCEPT !.state = "returned",
                                !.registryB = policies[scored.policy]]
    /\ UNCHANGED <<workloads, objs, now, ticks, reaper, deletedActive, floored, pc, loc,
                   callerVars, wired, items, lessTable, popOrder, bandVars, admitVars,
                   lifeVars>>

NextInject ==
    \/ \E p \in Priorities : ConfigBand(p)
    \/ StartInjection
    \/ InjectWorkloadRegistry
    \/ \E p \in Priorities : ensurePriorityBand(p)
    \/ \E p \in Priorities \cup {DefaultPriorityBand} : LessScoreA(p)
    \/ LessScoreB

SpecInject == InitWire /\ [][NextInject]_vars

(***************************************************************************)
(* The registry with its two read calls beside the three updates.  A read  *)
(* is one step: workloads.Load, then the entry read under metrics.mu.RLock *)
(* with the clock read inside.  `scored` holds the last read: the call,    *)
(* its result and, for GetMetrics, the pointer returned to the caller.     *)
(***************************************************************************)
FreshObj == -1      \* a pointer to the &WorkloadMetrics{...} GetMetrics allocates

ReadResult(op, w, t, rate, ret, snapshot) ==
    [op |-> op, workloadID |-> w, known |-> workloads[w] # NoObj, at |-> t,
     rate |-> rate, ret |-> ret, snapshot |-> snapshot, modified |-> FALSE]

CallGetRequestRate(g) ==
    /\ pc[g] = "idle"
    /\ ncalls < MaxCalls
    /\ \E w \in WorkloadIDs :
          scored' = ReadResult("GetRequestRate", w, now, GetRequestRate(w, now),
                               NoObj, NoMetrics)
    /\ ncalls' = ncalls + 1
    /\ UNCHANGED <<workloads, objs, now, ticks, reaper, deletedActive, floored, pc, loc,
                   wired, items, lessTable, popOrder, bandVars, admitVars, lifeVars>>

\* A GetMetrics that hands out the registry's own entry.
CallGetMetricsShared(g) ==
    /\ pc[g] = "idle"
    /\ ncalls < MaxCalls
    /\ \E w \in WorkloadIDs :
          scored' = ReadResult("GetMetrics", w, now, [n |-> 0, secs |-> 1],
                               workloads[w], GetMetrics(w))
    /\ ncalls' = ncalls + 1
    /\ UNCHANGED <<workloads, objs, now, ticks, reaper, deletedActive, floored, pc, loc,
                   wired, items, lessTable, popOrder, bandVars, admitVars, lifeVars>>

CallGetMetrics(g) ==
    /\ pc[g] = "idle"
    /\ ncalls < MaxCalls
    /\ \E w \in WorkloadIDs :
          scored' = ReadResult("GetMetrics", w, now, [n |-> 0, secs |-> 1],
                               IF GetMetrics(w) = NoMetrics THEN NoObj ELSE FreshObj,
                               GetMetrics(w))
    /\ ncalls' = ncalls + 1
    /\ UNCHANGED <<workloads, objs, now, ticks, reaper, deletedActive, floored, pc, loc,
                   wired, items, lessTable, popOrder, bandVars, admitVars, lifeVars>>

\* The WorkloadMetrics a returned pointer leads to.
Deref(p) == IF p = FreshObj THEN scored.snapshot ELSE objs[p]

\* The caller writes a field of the object GetMetrics returned.
ModifySnapshot ==
    /\ scored # <<>>
    /\ scored.op = "GetMetrics"
    /\ scored.ret # NoObj
    /\ ~scored.modified
    /\ IF scored.ret = FreshObj
          THEN /\ scored' = [scored EXCEPT !.snapshot.TotalRequests = @ + 1,
                                           !.modified = TRUE]
               /\ UNCHANGED objs
          ELSE /\ objs' = [objs EXCEPT ![scored.ret].TotalRequests = @ + 1]
               /\ scored' = [scored EXCEPT !.modified = TRUE]
    /\ UNCHANGED <<workloads, now, ticks, reaper, deletedActive, floored, pc, loc,
                   callerVars, wired, items, lessTable, popOrder, bandVars, admitVars, lifeVars>>

NextRead ==
    \/ Next
    \/ \E g \in Goroutines : CallGetRequestRate(g)
    \/ \E g \in Goroutines : CallGetMetrics(g)
    \/ ModifySnapshot

SpecRead == Init /\ [][NextRead]_vars

(***************************************************************************)
(* Goroutines calling WorkloadHandleNewRequest on one workload id and      *)
(* nothing else, beside the registry's own reaper goroutine and the clock; *)
(* ncalls counts the calls.                                                *)
(***************************************************************************)
RaceWorkload == "w1"

RaceNewRequest(g) ==
    /\ ncalls < MaxCalls
    /\ NewRequestLoadOrStore(g, RaceWorkload, "idle", "idle")
    /\ ncalls' = ncalls + 1
    /\ UNCHANGED <<now, ticks, reaper, deletedActive, policyVars, admitVars, lifeVars>>

NextRace ==
    \/ \E g \in Goroutines : RaceNewRequest(g)
    \/ \E g \in Goroutines : NewRequestFinish(g)
    \/ CleanupStart
    \/ \E k \in WorkloadIDs : CleanupCheck(k)
    \/ CleanupDelete
    \/ CleanupEnd
    \/ Tick

SpecRace == Init /\ [][NextRace]_vars

(***************************************************************************)
(* Less and computeScore on items with and without a WorkloadContext and   *)
(* on nil items, by a policy with or without a registry; the registry may  *)
(* hold an entry under the id "default".                                   *)
(***************************************************************************)
DefaultWorkloadID     == "default"
DegradedIDs           == {"w1", DefaultWorkloadID}
DegradedCriticalities == {0, 1, 3, 5, 6}
DegradedItems ==
    [hasCtx : BOOLEAN, workloadID : DegradedIDs, criticality : DegradedCriticalities,
     enqueueTime : {0}]

InitDegraded ==
    /\ now \in LessClocks
    /\ wired \in BOOLEAN
    /\ \E e \in [DegradedIDs -> EntryChoices] :
          /\ objs = (IF e["w1"] = NoMetrics THEN <<>> ELSE <<e["w1"]>>)
                    \o (IF e[DefaultWorkloadID] = NoMetrics THEN <<>>
                                                            ELSE <<e[DefaultWorkloadID]>>)
          /\ workloads = [w \in DegradedIDs |->
                            IF e[w] = NoMetrics THEN NoObj
                            ELSE IF w = "w1" \/ e["w1"] = NoMetrics THEN 1 ELSE 2]
    /\ items = <<>>
    /\ lessTable = <<>>
    /\ scored = <<>>
    /\ popOrder = <<>>
    /\ queue = {}
    /\ dispatching = 0
    /\ policies = <<>>
    /\ bands = <<>>
    /\ ticks = 0
    /\ stopCleanup = "open"
    /\ cleanupTicker = [pending |-> FALSE, stopped |-> FALSE]
    /\ panicked = FALSE
    /\ reaper = [pc |-> "idle", now |-> 0, todo |-> {}, key |-> "", runs |-> 0]
    /\ deletedActive = -1
    /\ floored = FALSE
    /\ pc = <<>>
    /\ loc = <<>>
    /\ ncalls = 0
    /\ req = <<>>

ScoreOrZero(item, t) ==
    IF item = NoItem THEN [num |-> 0, den |-> 1] ELSE computeScore(item, t)

(***************************************************************************)
(* One call Less(a, b), the clock advancing by d between its two           *)
(* computeScore calls, followed by another computeScore of a.              *)
(***************************************************************************)
LessCall ==
    /\ scored = <<>>
    /\ \E a, b \in DegradedItems \cup {NoItem}, d \in ClockDrifts :
          scored' = [kind |-> "less", a |-> a, b |-> b,
                     less   |-> Less(a, b, now, now + d),
                     scoreA |-> ScoreOrZero(a, now),
                     scoreB |-> ScoreOrZero(b, now + d),
                     again  |-> ScoreOrZero(a, now + d),
                     workloadID  |-> IF a = NoItem THEN "" ELSE EffectiveWorkloadID(a),
                     criticality |-> IF a = NoItem THEN 0 ELSE EffectiveCriticality(a)]
    /\ ScoreUnchanged

NextDegraded == LessCall

SpecDegraded == InitDegraded /\ [][NextDegraded]_vars

(***************************************************************************)
(* The life of the cleanup goroutine: NewWorkloadRegistry starts the       *)
(* ticker and cleanupLoop; goroutines call Stop, each call a select on     *)
(* stopCleanup followed, in its default case, by close(stopCleanup).       *)
(* Closing a closed channel panics, and a panic ends the process.          *)
(***************************************************************************)
TickerFire ==
    /\ ~panicked
    /\ ~cleanupTicker.stopped
    /\ ~cleanupTicker.pending
    /\ cleanupTicker' = [cleanupTicker EXCEPT !.pending = TRUE]
    /\ UNCHANGED <<workloads, objs, now, ticks, reaper, deletedActive, floored, pc, loc,
                   callerVars, wired, items, lessTable, scored, popOrder, bandVars,
                   admitVars, stopCleanup, panicked>>

\* cleanupLoop's select takes the ticker's case: cleanup() starts.
CleanupLoopTick ==
    /\ ~panicked
    /\ reaper.pc = "idle"
    /\ cleanupTicker.pending
    /\ reaper.runs < MaxCleanups
    /\ cleanupTicker' = [cleanupTicker EXCEPT !.pending = FALSE]
    /\ reaper' = [pc |-> "range", now |-> now, todo |-> WorkloadIDs, key |-> "",
                  runs |-> reaper.runs + 1]
    /\ UNCHANGED <<workloads, objs, now, ticks, deletedActive, floored, pc, loc,
                   callerVars, wired, items, lessTable, scored, popOrder, bandVars,
                   admitVars, stopCleanup, panicked>>

\* A cleanupLoop that returns without stopping its ticker.
CleanupLoopReturn ==
    /\ ~panicked
    /\ reaper.pc = "idle"
    /\ stopCleanup = "closed"
    /\ reaper' = [reaper EXCEPT !.pc = "exited"]
    /\ UNCHANGED <<workloads, objs, now, ticks, deletedActive, floored, pc, loc,
                   callerVars, wired, items, lessTable, scored, popOrder, bandVars,
                   admitVars, stopCleanup, cleanupTicker, panicked>>

\* cleanupLoop's select takes the stopCleanup case: the ticker is stopped
\* and the goroutine returns.
CleanupLoopStop ==
    /\ ~panicked
    /\ reaper.pc = "idle"
    /\ stopCleanup = "closed"
    /\ cleanupTicker' = [cleanupTicker EXCEPT !.stopped = TRUE]
    /\ reaper' = [reaper EXCEPT !.pc = "exited"]
    /\ UNCHANGED <<workloads, objs, now, ticks, deletedActive, floored, pc, loc,
                   callerVars, wired, items, lessTable, scored, popOrder, bandVars,
                   admitVars, stopCleanup, panicked>>

\* Stop, first half: the select; a closed channel is ready and Stop returns,
\* else the default case is taken.
StopSelect(g) ==
    /\ ~panicked
    /\ pc[g] = "idle"
    /\ ncalls < MaxCalls
    /\ ncalls' = ncalls + 1
    /\ pc' = [pc EXCEPT ![g] = IF stopCleanup = "closed" THEN "idle" ELSE "stop_close"]
    /\ UNCHANGED <<workloads, objs, now, ticks, reaper, deletedActive, floored, loc,
                   wired, items, lessTable, scored, popOrder, bandVars, admitVars,
                   lifeVars>>

\* Stop, second half: close(wr.stopCleanup).
StopClose(g) ==
    /\ ~panicked
    /\ pc[g] = "stop_close"
    /\ IF stopCleanup = "closed"
          THEN panicked' = TRUE /\ UNCHANGED stopCleanup
          ELSE stopCleanup' = "closed" /\ UNCHANGED panicked
    /\ pc' = [pc EXCEPT ![g] = "idle"]
    /\ UNCHANGED <<workloads, objs, now, ticks, reaper, deletedActive, floored, loc,
                   callerVars, wired, items, lessTable, scored, popOrder, bandVars,
                   admitVars, cleanupTicker>>

NextStop ==
    \/ TickerFire
    \/ CleanupLoopTick
    \/ CleanupLoopStop
    \/ \E g \in Goroutines : StopSelect(g)
    \/ \E g \in Goroutines : StopClose(g)
    \/ \E k \in WorkloadIDs : ~panicked /\ CleanupCheck(k)
    \/ ~panicked /\ CleanupDelete
    \/ ~panicked /\ CleanupEnd
    \/ \E g \in Goroutines : ~panicked /\ CallNewRequest(g)
    \/ \E g \in Goroutines : ~panicked /\ NewRequestFinish(g)
    \/ ~panicked /\ Tick

SpecStop == Init /\ [][NextStop]_vars

\* The scheduler lets every goroutine that can take a step take one, and
\* the select of cleanupLoop, which chooses at random among the cases that
\* are ready, does not pass over the stopCleanup case for ever.
FairStop ==
    /\ \A g \in Goroutines : WF_vars(StopClose(g))
    /\ \A k \in WorkloadIDs : WF_vars(~panicked /\ CleanupCheck(k))
    /\ WF_vars(~panicked /\ CleanupDelete)
    /\ WF_vars(~panicked /\ CleanupEnd)
    /\ SF_vars(CleanupLoopStop)

SpecStopFair == SpecStop /\ FairStop

(***************************************************************************)
(* C1: the active-request count of a workload is never below zero,         *)
(* whatever the interleaving of NewRequest and Completed calls, more       *)
(* completions than new requests included.                                 *)
(***************************************************************************)
ActiveRequestsNeverNegative ==
    \A i \in 1..Len(objs) : objs[i].ActiveRequests >= 0

\* A completion arrived at an entry whose count was already 0 and left it there.
CompletedAtZeroReached ==
    /\ floored
    /\ \E i \in 1..Len(objs) : objs[i].ActiveRequests = 0 /\ objs[i].TotalRequests > 0

(***************************************************************************)
(* C2: the reaper never deletes an entry whose active-request count is     *)
(* above zero: whenever it deletes an entry, that entry's count is 0 at    *)
(* the moment of the deletion.                                             *)
(***************************************************************************)
ReaperDeletesOnlyIdle ==
    deletedActive \in {-1, 0}

(***************************************************************************)
(* The requests of workload w for which WorkloadHandleNewRequest has       *)
(* returned and WorkloadHandleCompletedRequest has not been called.        *)
(***************************************************************************)
InFlight(w) ==
    {r \in Requests : req[r].workloadID = w /\ pc[r] \in {"admit", "waiting", "cleanup"}}

\* No handler is inside a NewRequest or Completed call on workload w.
Quiescent(w) ==
    \A r \in Requests :
        req[r].workloadID = w => pc[r] \notin {"new_update", "completed_update"}

ActiveRequestsOf(w) ==
    IF workloads[w] = NoObj THEN 0 ELSE objs[workloads[w]].ActiveRequests

(***************************************************************************)
(* C3: whenever no NewRequest or Completed call on a workload is under     *)
(* way, the workload's active-request count equals the number of its       *)
(* requests for which NewRequest has returned and Completed has not yet    *)
(* been called.                                                            *)
(***************************************************************************)
ActiveRequestsCountsInFlight ==
    \A w \in WorkloadIDs :
        Quiescent(w) => ActiveRequestsOf(w) = Cardinality(InFlight(w))

(***************************************************************************)
(* C4: for every admission attempt WorkloadHandleCompletedRequest is       *)
(* called exactly once, whatever the outcome: never twice, and once by the *)
(* time the handler has returned.                                          *)
(***************************************************************************)
CompletedCalledExactlyOnce ==
    \A r \in Requests :
        /\ req[r].completedCalls <= 1
        /\ pc[r] = "done" => req[r].completedCalls = 1
        /\ pc[r] \in {"start", "new_update", "admit", "waiting", "cleanup"}
              => req[r].completedCalls = 0

\* Two handlers have returned, one rejected or cancelled and one dispatched,
\* each after one Completed call.
CompletedAfterEveryOutcomeReached ==
    /\ \E r \in Requests :
          pc[r] = "done" /\ req[r].outcome # "Dispatched" /\ req[r].completedCalls = 1
    /\ \E r \in Requests :
          pc[r] = "done" /\ req[r].outcome = "Dispatched" /\ req[r].completedCalls = 1

(***************************************************************************)
(* C5: once the caller's context is cancelled (or its deadline passes)     *)
(* while its item waits in the queue, the item is no longer in the queue,  *)
(* has not been handed to the dispatch loop and never will be.             *)
(***************************************************************************)
CancelledNeverDispatched ==
    \A r \in Requests :
        req[r].outcome \in {"Cancelled", "TimedOut"}
            => r \notin queue /\ dispatching # r /\ ~req[r].popped

\* A waiting item was cancelled and the dispatch loop went on to dispatch
\* another request afterwards.
CancelledThenOtherDispatchedReached ==
    \E r, q \in Requests :
        /\ req[r].outcome \in {"Cancelled", "TimedOut"}
        /\ req[q].outcome = "Dispatched"
        /\ req[q].enqueueTime > req[r].enqueueTime

Evaluated == lessTable # <<>>

AvgWaitOfItem(i)  == AvgWaitTimeOf(items[i])
DispatchesOf(i) ==
    IF workloads[items[i].workloadID] = NoObj
       THEN 0
       ELSE objs[workloads[items[i].workloadID]].DispatchedCount

LessIrreflexive == \A a \in ItemIds : ~lessTable.less[a, a]
LessAsymmetric  == \A a, b \in ItemIds : ~(lessTable.less[a, b] /\ lessTable.less[b, a])
LessTransitive  ==
    \A a, b, c \in ItemIds :
        lessTable.less[a, b] /\ lessTable.less[b, c] => lessTable.less[a, c]
\* Totality over items enqueued at different times; two items of equal score
\* enqueued at the same time are ordered neither way and are left aside here.
LessTotal       ==
    \A a, b \in ItemIds :
        items[a].enqueueTime # items[b].enqueueTime
            => lessTable.less[a, b] \/ lessTable.less[b, a]

(***************************************************************************)
(* C8: at a fixed registry state the results of Less over the items of a   *)
(* band form a strict total order: irreflexive, asymmetric, transitive,    *)
(* and total over distinct items (taken here as items enqueued at          *)
(* different times).                                                       *)
(***************************************************************************)
LessIsStrictTotalOrder ==
    Evaluated => LessIrreflexive /\ LessAsymmetric /\ LessTransitive /\ LessTotal

(***************************************************************************)
(* C9: under the default weights an item of criticality 1 whose workload   *)
(* has an average wait of 60 s is ordered before an item of criticality 5  *)
(* whose workload has an average wait of 0, their request rates being      *)
(* equal.                                                                  *)
(***************************************************************************)
LongWaitBeatsCriticality ==
    Evaluated =>
        \A a, b \in ItemIds :
            /\ items[a].criticality = 1 /\ AvgWaitOfItem(a) = MaxWaitMs
            /\ items[b].criticality = 5 /\ AvgWaitOfItem(b) = 0
            /\ ScoreEqual(ScoreOf(0, 0, RequestRateOf(items[a], now)),
                          ScoreOf(0, 0, RequestRateOf(items[b], now + lessTable.drift)))
            => lessTable.less[a, b] /\ ~lessTable.less[b, a]

\* Less has put a criticality-1 item of a workload averaging 60 s before a
\* criticality-5 item of a workload averaging 0, the rates being equal.
LongWaitBeatsCriticalityReached ==
    /\ Evaluated
    /\ \E a, b \in ItemIds :
          /\ items[a].criticality = 1 /\ AvgWaitOfItem(a) = MaxWaitMs
          /\ items[b].criticality = 5 /\ AvgWaitOfItem(b) = 0
          /\ ScoreEqual(ScoreOf(0, 0, RequestRateOf(items[a], now)),
                        ScoreOf(0, 0, RequestRateOf(items[b], now + lessTable.drift)))
          /\ RequestRateOf(items[a], now).n > 0
          /\ lessTable.less[a, b]

(***************************************************************************)
(* C10: an item of criticality 1 that has itself waited 60 s in the queue  *)
(* is ordered before a just-enqueued item of criticality 5 when neither    *)
(* workload has a dispatch recorded.                                       *)
(***************************************************************************)
OldItemBeatsCriticality ==
    Evaluated =>
        \A a, b \in ItemIds :
            /\ items[a].criticality = 1 /\ now - items[a].enqueueTime = MaxWaitTimeSeconds
            /\ items[b].criticality = 5 /\ items[b].enqueueTime = now
            /\ DispatchesOf(a) = 0 /\ DispatchesOf(b) = 0
            => lessTable.less[a, b]

\* The scores the two computeScore calls of Less(items[a], items[b]) return.
ScoreA(a) == computeScore(items[a], now)
ScoreB(b) == computeScore(items[b], now + lessTable.drift)
RateA(a)  == RequestRateOf(items[a], now)
RateB(b)  == RequestRateOf(items[b], now + lessTable.drift)
SameRate(x, y) == x.n * y.secs = y.n * x.secs
ValidCriticality(c) == c >= MinCriticality /\ c <= MaxCriticality

(***************************************************************************)
(* C12: for two non-nil items whose computed scores differ, Less(a, b) is  *)
(* true exactly when the score computed for a is the greater one; in       *)
(* particular, with equal average wait and equal request rate, the item of *)
(* the higher criticality in 1..5 is ordered first.                        *)
(***************************************************************************)
LessFollowsHigherScore ==
    Evaluated =>
        \A a, b \in ItemIds :
            /\ ~ScoreEqual(ScoreA(a), ScoreB(b))
                  => (lessTable.less[a, b] <=> ScoreGreater(ScoreA(a), ScoreB(b)))
            /\ ( /\ AvgWaitOfItem(a) = AvgWaitOfItem(b)
                 /\ SameRate(RateA(a), RateB(b))
                 /\ ValidCriticality(items[a].criticality)
                 /\ ValidCriticality(items[b].criticality)
                 /\ items[a].criticality > items[b].criticality )
                  => lessTable.less[a, b]

\* Less has put an item of higher criticality before one enqueued earlier,
\* their workloads' average waits and non-zero rates being equal.
HigherCriticalityFirstReached ==
    /\ Evaluated
    /\ \E a, b \in ItemIds :
          /\ AvgWaitOfItem(a) = AvgWaitOfItem(b)
          /\ SameRate(RateA(a), RateB(b)) /\ RateA(a).n > 0
          /\ items[a].criticality > items[b].criticality
          /\ items[a].enqueueTime > items[b].enqueueTime
          /\ lessTable.less[a, b]

(***************************************************************************)
(* C13: when the scores computed for two non-nil items are identical,      *)
(* Less(a, b) is true exactly when a's enqueue time is strictly earlier    *)
(* than b's.                                                               *)
(***************************************************************************)
LessTieBreaksOnEnqueueTime ==
    Evaluated =>
        \A a, b \in ItemIds :
            ScoreEqual(ScoreA(a), ScoreB(b))
                => (lessTable.less[a, b]
                        <=> items[a].enqueueTime < items[b].enqueueTime)

\* Less has ordered two items of different workloads with identical scores
\* by their enqueue times.
TieBrokenByEnqueueTimeReached ==
    /\ Evaluated
    /\ \E a, b \in ItemIds :
          /\ items[a].workloadID # items[b].workloadID
          /\ ScoreEqual(ScoreA(a), ScoreB(b))
          /\ items[a].enqueueTime < items[b].enqueueTime
          /\ lessTable.less[a, b] /\ ~lessTable.less[b, a]

ScoredPair   == scored # <<>> /\ scored.kind = "pair"
ScoredItem   == scored # <<>> /\ scored.kind = "item"
ScoredHeader == scored # <<>> /\ scored.kind = "header"
BelowMaxRate(r) == r.n < MaxRequestRate * r.secs
\* s1 - s2 as a multiple of 1/(ScoreScale * s1.den * s2.den)
ScoreDifference(x, y) == x.num * y.den - y.num * x.den

(***************************************************************************)
(* C15: with criticality and request rate held fixed the score never       *)
(* decreases as the workload's average wait grows, and it is strictly      *)
(* greater for the longer of two average waits whenever the shorter one is *)
(* below MaxWaitTimeSeconds (60 s), where the wait term saturates.         *)
(***************************************************************************)
ScoreIncreasesWithWaitBelowCap ==
    ScoredPair /\ scored.r1 = scored.r2 /\ scored.w1 < scored.w2
        => /\ ~ScoreGreater(scored.s1, scored.s2)
           /\ scored.w1 < MaxWaitMs => ScoreGreater(scored.s2, scored.s1)

\* C15 as stated: strictly increasing for any two average waits.
ScoreStrictlyIncreasesWithWait ==
    ScoredPair /\ scored.r1 = scored.r2 /\ scored.w1 < scored.w2
        => ScoreGreater(scored.s2, scored.s1)

\* Two average waits up to the cap were scored at one non-zero rate and the
\* longer one scored higher.
LongerWaitScoredHigherReached ==
    /\ ScoredPair
    /\ scored.r1 = scored.r2 /\ scored.r1.n > 0
    /\ scored.w1 < scored.w2 /\ scored.w2 <= MaxWaitMs /\ scored.w1 > 0
    /\ ScoreGreater(scored.s2, scored.s1)

(***************************************************************************)
(* C16: with criticality and average wait held fixed the score never       *)
(* increases as the workload's request rate grows, and it is strictly      *)
(* smaller for the higher of two rates whenever the lower one is below     *)
(* MaxRequestRate (100 req/s), where the penalty saturates; rate 0         *)
(* outscores rate 50 by exactly 0.1 under the default weights.             *)
(***************************************************************************)
ScoreDecreasesWithRateBelowCap ==
    ScoredPair /\ scored.w1 = scored.w2 /\ RateLess(scored.r1, scored.r2)
        => /\ ~ScoreGreater(scored.s2, scored.s1)
           /\ BelowMaxRate(scored.r1) => ScoreGreater(scored.s1, scored.s2)
           /\ scored.r1.n = 0 /\ scored.r2 = [n |-> 50, secs |-> 1]
                 => 10 * ScoreDifference(scored.s1, scored.s2)
                        = ScoreScale * scored.s1.den * scored.s2.den

\* C16 as stated: strictly decreasing for any two rates.
ScoreStrictlyDecreasesWithRate ==
    ScoredPair /\ scored.w1 = scored.w2 /\ RateLess(scored.r1, scored.r2)
        => ScoreGreater(scored.s1, scored.s2)

\* Rate 0 and rate 50 were scored at one criticality and one average wait.
RateZeroAgainstFiftyReached ==
    /\ ScoredPair
    /\ scored.w1 = scored.w2 /\ scored.w1 > 0
    /\ scored.r1.n = 0 /\ scored.r2 = [n |-> 50, secs |-> 1]
    /\ ScoreGreater(scored.s1, scored.s2)

(***************************************************************************)
(* C17: computeScore gives an item whose criticality is outside [1, 5]     *)
(* (0, -1 or 6, for example) exactly the score it gives the same item      *)
(* with criticality 3.                                                     *)
(***************************************************************************)
InvalidCriticalityScoredAsThree ==
    ScoredItem /\ scored.item.hasCtx /\ ~ValidCriticality(scored.item.criticality)
        => scored.score = computeScore([scored.item EXCEPT !.criticality = 3], now)

\* An item of criticality 6 whose workload has an entry was scored, and its
\* score is below the one criticality 5 gets.
CriticalitySixScoredReached ==
    /\ ScoredItem
    /\ scored.item.hasCtx /\ scored.item.criticality = 6
    /\ workloads[scored.item.workloadID] # NoObj
    /\ ScoreGreater(computeScore([scored.item EXCEPT !.criticality = 5], now),
                    scored.score)

(***************************************************************************)
(* C18: the effective criticality used in scoring is the input itself when *)
(* it lies in 1..5 and exactly 3 otherwise: when it is absent, zero,       *)
(* negative or above 5 (6 is scored as 3, not as 5).                       *)
(***************************************************************************)
EffectiveCriticalityDefaultsOutOfRange ==
    ScoredItem
        => scored.criticality =
              (IF scored.item.hasCtx /\ scored.item.criticality \in 1..5
                  THEN scored.item.criticality
                  ELSE 3)

\* C18 as stated: a positive criticality outside the range is clamped (6 is
\* scored as 5); an absent, zero or negative one becomes 3.
EffectiveCriticalityClampsPositive ==
    ScoredItem
        => scored.criticality =
              (IF ~scored.item.hasCtx \/ scored.item.criticality <= 0 THEN 3
               ELSE IF scored.item.criticality > 5 THEN 5
               ELSE scored.item.criticality)

\* Criticalities above 5 and below 1 have been scored with effective value 3.
AboveRangeDefaultedReached ==
    /\ ScoredItem
    /\ scored.item.hasCtx /\ scored.item.criticality > 5
    /\ scored.criticality = 3

(***************************************************************************)
(* C19: header parsing maps a criticality outside [1, 5] to the nearest    *)
(* bound (0 and negative values to 1, values above 5 to 5) and yields the  *)
(* default 3 only when the header is missing, empty or not parseable.      *)
(***************************************************************************)
HeaderCriticalityClampedToNearestBound ==
    ScoredHeader
        => scored.ctx.criticality =
              (IF scored.header.json # "object" THEN 3
               ELSE IF scored.header.criticality < 1 THEN 1
               ELSE IF scored.header.criticality > 5 THEN 5
               ELSE scored.header.criticality)

RateNow(i) == RequestRateOf(items[i], now)
AllPopped  == Len(popOrder) = 3

(***************************************************************************)
(* C14: items A (criticality 1), B (criticality 5) and C (criticality 3)   *)
(* of workloads with average wait 0 and equal request rates, enqueued into *)
(* one band in any order, are popped in the order B, C, A.                 *)
(***************************************************************************)
PoppedByCriticalityAtEqualRates ==
    ( /\ AllPopped
      /\ SameRate(RateNow("A"), RateNow("B"))
      /\ SameRate(RateNow("B"), RateNow("C")) )
        => popOrder = <<"B", "C", "A">>

\* C14 as stated: the order is B, C, A whatever the workloads' rates.
PoppedByCriticality ==
    AllPopped => popOrder = <<"B", "C", "A">>

\* A was enqueued first and B last, the workloads have one non-zero rate,
\* and the pops came out B, C, A.
EnqueuedACBPoppedBCAReached ==
    /\ popOrder = <<"B", "C", "A">>
    /\ items["A"].enqueueOrder = 1 /\ items["B"].enqueueOrder = 3
    /\ items["A"].workloadID # items["B"].workloadID
    /\ RateNow("A").n > 0
    /\ SameRate(RateNow("A"), RateNow("B"))
    /\ SameRate(RateNow("B"), RateNow("C"))

\* The admission attempts whose WorkloadHandleNewRequest has returned.
Counted == {r \in Requests : pc[r] \notin {"start", "new_update"}}
RECURSIVE TotalRequestsUpTo(_)
TotalRequestsUpTo(i) ==
    IF i = 0 THEN 0 ELSE objs[i].TotalRequests + TotalRequestsUpTo(i - 1)

(***************************************************************************)
(* C20: WorkloadHandleNewRequest runs for every admission attempt before   *)
(* the capacity check: the total_requests counters hold one count for each *)
(* attempt that has reached Admit, the rejected ones included, and the     *)
(* sliding-window count of an entry that has counted a request is at least *)
(* 1 and at most its total.                                                *)
(***************************************************************************)
RejectedAttemptsAreCounted ==
    /\ TotalRequestsUpTo(Len(objs)) = Cardinality(Counted)
    /\ \A r \in Requests : req[r].outcome = "Rejected" => r \in Counted
    /\ \A i \in 1..Len(objs) :
          objs[i].TotalRequests >= 1
              => /\ objs[i].SlidingWindowRequests >= 1
                 /\ objs[i].SlidingWindowRequests <= objs[i].TotalRequests

\* A request has just been rejected for capacity while another is queued,
\* and its workload's entry counts both in total and in the window.
RejectedButCountedReached ==
    \E r \in Requests :
        /\ req[r].outcome = "Rejected" /\ pc[r] = "cleanup"
        /\ queue # {}
        /\ workloads[req[r].workloadID] # NoObj
        /\ objs[workloads[req[r].workloadID]].TotalRequests = 2
        /\ objs[workloads[req[r].workloadID]].SlidingWindowRequests = 2

\* Arrival h came when the first item had already waited MaxWaitTimeSeconds
\* and was dispatched the moment it arrived.
DispatchedFresh(h) ==
    /\ items[h].popped
    /\ items[h].poppedAt = items[h].enqueueTime
    /\ items[h].enqueueTime - items[LowItem].enqueueTime >= MaxWaitTimeSeconds

(***************************************************************************)
(* C11: every item enqueued in a band is eventually dispatched while the   *)
(* dispatcher keeps dispatching, even if items of higher criticality keep  *)
(* arriving.  On finite runs: the enqueued item is dispatched before every *)
(* one of MaxArrivals later items of higher criticality, each arriving     *)
(* after it has waited MaxWaitTimeSeconds or more, has been dispatched the *)
(* moment it arrived.                                                      *)
(***************************************************************************)
WaitingItemNotStarved ==
    ~( /\ LowItem \in queue
       /\ \A h \in Arrivals : DispatchedFresh(h) )

(***************************************************************************)
(* C21: when the band is at capacity Admit returns the capacity rejection  *)
(* at once and the item is never placed in the band's queue: the rejected  *)
(* call leaves the queue contents unchanged.                               *)
(***************************************************************************)
RejectionLeavesQueueUnchanged ==
    [][\A r \in Requests :
          req'[r].outcome = "Rejected"
              => /\ r \notin queue'
                 /\ req[r].outcome # "Rejected"
                       => queue' = queue /\ pc[r] = "admit" /\ pc'[r] = "cleanup"]_vars

\* A request was rejected while the band held another item, which is still
\* the only content of the queue.
RejectedAtCapacityReached ==
    \E r \in Requests :
        /\ req[r].outcome = "Rejected"
        /\ Cardinality(queue) = QueueCapacity
        /\ r \notin queue

NoBandOrdersWithNilRegistry ==
    /\ pc = "serving"
          => \A p \in Priorities :
                bands[p] # NoBand
                   => /\ policies[bands[p].policy] = TheRegistry
                      /\ bands[p].dynamic
                            => bands[p].policy = bands[DefaultPriorityBand].policy
    /\ scored # <<>> => scored.registry = TheRegistry /\ wired

\* A band created on first use has ordered its queue, beside a configured
\* band that has a policy instance of its own.
DynamicBandOrderedReached ==
    /\ scored # <<>>
    /\ bands[scored.priority].dynamic
    /\ \E q \in Priorities :
          /\ bands[q] # NoBand
          /\ bands[q].policy # bands[DefaultPriorityBand].policy

(***************************************************************************)
(* C24: a call of WorkloadHandleDispatchedRequest,                         *)
(* WorkloadHandleCompletedRequest, GetRequestRate or GetMetrics with an    *)
(* unknown workload id returns at once and leaves the registry as it was;  *)
(* an entry is added to the registry only by a WorkloadHandleNewRequest    *)
(* step, for the id of that call.                                          *)
(***************************************************************************)
UnknownIdCallsLeaveRegistryUnchanged ==
    [][/\ (ncalls' = ncalls + 1 /\ pc' = pc)
             => /\ workloads' = workloads
                /\ objs' = objs
       /\ \A g \in Goroutines :
             pc[g] = "idle" /\ pc'[g] \in {"completed_update", "dispatched_update"}
                => workloads[loc'[g].workloadID] # NoObj
       /\ scored' # scored /\ ~scored'.modified
             => scored'.known = (workloads[scored'.workloadID] # NoObj)
       /\ \A w \in WorkloadIDs :
             workloads[w] = NoObj /\ workloads'[w] # NoObj
                => \E g \in Goroutines :
                      /\ pc[g] = "idle" /\ pc'[g] = "new_update"
                      /\ loc'[g].workloadID = w
       /\ Len(objs') # Len(objs)
             => \E g \in Goroutines : pc[g] = "idle" /\ pc'[g] = "new_update"]_vars

\* Every call so far, a read among them, was made with an unknown id and
\* has returned; the registry is still empty.
UnknownIdCallsReturnedReached ==
    /\ ncalls = MaxCalls
    /\ \A g \in Goroutines : pc[g] = "idle"
    /\ objs = <<>>
    /\ \A w \in WorkloadIDs : workloads[w] = NoObj
    /\ scored # <<>>
    /\ ~scored.known

(***************************************************************************)
(* C25: the locked section of a WorkloadHandleDispatchedRequest on an      *)
(* entry increments its DispatchedCount by exactly 1 and sets its          *)
(* AverageWaitTime to the observed wait when the entry had no dispatch     *)
(* yet, and to 0.2 * wait + 0.8 * (previous average), cut to a whole unit  *)
(* of the duration, when it had; no other step changes either field.      *)
(***************************************************************************)
DispatchedUpdatesEMA ==
    [][\A i \in 1..Len(objs) :
          LET old == objs[i]
              new == objs'[i]
          IN  \/ /\ new.DispatchedCount = old.DispatchedCount
                 /\ new.AverageWaitTime = old.AverageWaitTime
              \/ \E g \in Goroutines :
                    /\ pc[g] = "dispatched_update" /\ loc[g].metrics = i
                    /\ pc'[g] = loc[g].ret
                    /\ new.DispatchedCount = old.DispatchedCount + 1
                    /\ IF old.DispatchedCount = 0
                          THEN new.AverageWaitTime = loc[g].waitTime
                          ELSE LET exact == 2 * loc[g].waitTime + 8 * old.AverageWaitTime
                               IN  /\ 10 * new.AverageWaitTime <= exact
                                   /\ exact < 10 * (new.AverageWaitTime + 1)]_vars

\* Two dispatches on one entry: the first wait of 60 s taken as it is, then
\* a wait of 0 blended in, 0.2 * 0 + 0.8 * 60 s = 48 s.
SecondDispatchBlendedReached ==
    \E i \in 1..Len(objs) :
        /\ objs[i].DispatchedCount = 2
        /\ objs[i].AverageWaitTime = 48000

(***************************************************************************)
(* C26: every WorkloadHandleNewRequest call goes through: its LoadOrStore  *)
(* leaves an entry for its id in the registry, a new one when the id was   *)
(* unseen, and its locked section raises TotalRequests and ActiveRequests  *)
(* of that entry by exactly 1 and sets LastRequestTime to the time read at *)
(* the start of the call; TotalRequests is changed by no other step.       *)
(***************************************************************************)
NewRequestCountsAndStamps ==
    [][/\ \A g \in Goroutines :
             /\ pc[g] = "idle" /\ pc'[g] = "new_update"
                   => LET w == loc'[g].workloadID IN
                      /\ workloads'[w] # NoObj
                      /\ loc'[g].metrics = workloads'[w]
                      /\ loc'[g].now = now
                      /\ workloads[w] = NoObj
                            => /\ Len(objs') = Len(objs) + 1
                               /\ workloads'[w] = Len(objs')
                               /\ objs'[workloads'[w]].TotalRequests = 0
             /\ pc[g] = "new_update" /\ pc'[g] # "new_update"
                   => LET i == loc[g].metrics IN
                      /\ pc'[g] = loc[g].ret
                      /\ objs'[i].TotalRequests = objs[i].TotalRequests + 1
                      /\ objs'[i].ActiveRequests = objs[i].ActiveRequests + 1
                      /\ objs'[i].LastRequestTime = loc[g].now
       /\ \A i \in 1..Len(objs) :
             objs'[i].TotalRequests # objs[i].TotalRequests
                => \E g \in Goroutines :
                      /\ pc[g] = "new_update" /\ pc'[g] # "new_update"
                      /\ loc[g].metrics = i]_vars

\* Two calls on one id, the second one second after the first: the entry
\* counts both and carries the time of the second.
SecondNewRequestStampedReached ==
    \E w \in WorkloadIDs :
        /\ workloads[w] # NoObj
        /\ objs[workloads[w]].TotalRequests = 2
        /\ objs[workloads[w]].ActiveRequests = 2
        /\ objs[workloads[w]].WindowStartTime = 0
        /\ objs[workloads[w]].LastRequestTime = 1
        /\ now = 1

(***************************************************************************)
(* C27: the locked section of a WorkloadHandleNewRequest whose time is     *)
(* more than the window duration after the entry's WindowStartTime sets    *)
(* WindowStartTime to that time and SlidingWindowRequests to exactly 1;    *)
(* any other leaves WindowStartTime and raises SlidingWindowRequests by 1; *)
(* TotalRequests is raised by 1 in both cases.                             *)
(***************************************************************************)
WindowResetsToOne ==
    [][\A g \in Goroutines :
          pc[g] = "new_update" /\ pc'[g] # "new_update"
             => LET old == objs[loc[g].metrics]
                    new == objs'[loc[g].metrics]
                    t   == loc[g].now
                IN  /\ new.TotalRequests = old.TotalRequests + 1
                    /\ IF t - old.WindowStartTime > windowDuration
                          THEN /\ new.WindowStartTime = t
                               /\ new.SlidingWindowRequests = 1
                          ELSE /\ new.WindowStartTime = old.WindowStartTime
                               /\ new.SlidingWindowRequests
                                     = old.SlidingWindowRequests + 1]_vars

\* Two requests in the first window and a third after it has elapsed: the
\* window count is back at 1 while the total is 3.
WindowResetAfterTwoReached ==
    \E w \in WorkloadIDs :
        /\ workloads[w] # NoObj
        /\ objs[workloads[w]].TotalRequests = 3
        /\ objs[workloads[w]].SlidingWindowRequests = 1
        /\ objs[workloads[w]].WindowStartTime = now
        /\ now > windowDuration

\* Every call made so far has returned.
AllCallsReturned == \A g \in Goroutines : pc[g] = "idle"

TotalRequestsOf(w) ==
    IF workloads[w] = NoObj THEN 0 ELSE objs[workloads[w]].TotalRequests

(***************************************************************************)
(* C28: once all the concurrent WorkloadHandleNewRequest calls on one id   *)
(* have returned, the id's total_requests equals the number of calls, and  *)
(* all of them have updated one entry.                                     *)
(***************************************************************************)
NoIncrementLost ==
    AllCallsReturned
        => /\ TotalRequestsOf(RaceWorkload) = ncalls
           /\ Len(objs) <= 1

\* The same while the reaper has deleted no entry.
NoIncrementLostWithoutDelete ==
    AllCallsReturned /\ deletedActive = -1
        => /\ TotalRequestsOf(RaceWorkload) = ncalls
           /\ Len(objs) <= 1

(***************************************************************************)
(* C29: a GetRequestRate call returns 0 when its workload id has no entry  *)
(* and when the entry's window started more than the window duration       *)
(* before the call, whatever the count the window holds.                   *)
(***************************************************************************)
RateZeroWhenUnknownOrExpired ==
    [][scored' # scored /\ scored'.op = "GetRequestRate"
          => LET w == scored'.workloadID IN
             /\ workloads[w] = NoObj => scored'.rate.n = 0
             /\ (/\ workloads[w] # NoObj
                 /\ now - objs[workloads[w]].WindowStartTime > windowDuration)
                   => scored'.rate.n = 0]_vars

\* The rate of an entry was read as 0 while its window, more than 60 s old
\* at the read, held a request.
ExpiredWindowReadAsZeroReached ==
    /\ scored # <<>>
    /\ scored.op = "GetRequestRate"
    /\ scored.known
    /\ scored.rate.n = 0
    /\ workloads[scored.workloadID] # NoObj
    /\ objs[workloads[scored.workloadID]].SlidingWindowRequests >= 1
    /\ scored.at - objs[workloads[scored.workloadID]].WindowStartTime > windowDuration

\* The caller holds an object that a GetMetrics call returned.
SnapshotHeld == scored # <<>> /\ scored.op = "GetMetrics" /\ scored.ret # NoObj

(***************************************************************************)
(* C30: GetMetrics on a known workload returns a newly allocated object    *)
(* with the values of the entry at the call; a write of the caller to the  *)
(* returned object changes nothing in the registry, and no step of the     *)
(* registry changes the object the caller holds.                           *)
(***************************************************************************)
GetMetricsReturnsFreshSnapshot ==
    [][/\ (scored' # scored /\ scored'.op = "GetMetrics" /\ ~scored'.modified)
             => LET w == scored'.workloadID IN
                IF workloads[w] = NoObj
                   THEN scored'.ret = NoObj
                   ELSE /\ scored'.ret = FreshObj
                        /\ scored'.snapshot = objs[workloads[w]]
                        /\ objs' = objs
       /\ (SnapshotHeld /\ scored'.modified /\ ~scored.modified)
             => /\ objs' = objs
                /\ workloads' = workloads
                /\ Deref(scored.ret)' # Deref(scored.ret)
       /\ (SnapshotHeld /\ scored' = scored)
             => Deref(scored.ret)' = Deref(scored.ret)]_vars

\* The caller has written to the snapshot it took when the entry counted
\* one request, and the entry has counted a second request since: the
\* snapshot shows the caller's write and not the registry's update, the
\* entry the update and not the write.
SnapshotAndEntryDivergedReached ==
    /\ SnapshotHeld
    /\ scored.modified
    /\ scored.snapshot.TotalRequests = 2
    /\ scored.snapshot.ActiveRequests = 1
    /\ workloads[scored.workloadID] # NoObj
    /\ objs[workloads[scored.workloadID]].TotalRequests = 2
    /\ objs[workloads[scored.workloadID]].ActiveRequests = 2

(***************************************************************************)
(* C31: a reaper pass visits every key of the registry; an entry that, at  *)
(* the moment the pass reads it, has active_requests 0 and a               *)
(* last_request_time more than the inactivity threshold before the time    *)
(* the pass took at its start is deleted from the map at once, before the  *)
(* pass reads another entry or ends.                                       *)
(***************************************************************************)
ReaperRemovesInactive ==
    [][/\ \A k \in WorkloadIDs :
             (reaper.pc = "range" /\ k \in reaper.todo /\ k \notin reaper'.todo)
                => IF /\ workloads[k] # NoObj
                      /\ objs[workloads[k]].ActiveRequests = 0
                      /\ reaper.now - objs[workloads[k]].LastRequestTime
                            > inactiveThreshold
                      THEN reaper'.pc = "delete" /\ reaper'.key = k
                      ELSE reaper'.pc = "range"
       /\ (reaper.pc = "delete" /\ reaper' # reaper)
             => /\ workloads'[reaper.key] = NoObj
                /\ reaper'.pc = "range"
       /\ (reaper.pc # "idle" /\ reaper'.pc = "idle")
             => reaper.pc = "range" /\ reaper.todo = {}]_vars

\* A pass has ended that deleted an entry with no active request: the entry
\* had counted a request that has completed, and its id is unknown now.
InactiveEntryRemovedReached ==
    /\ reaper.pc = "idle"
    /\ reaper.runs = 1
    /\ deletedActive = 0
    /\ \E i \in 1..Len(objs) :
          /\ objs[i].TotalRequests = 1
          /\ objs[i].ActiveRequests = 0
          /\ reaper.now - objs[i].LastRequestTime > inactiveThreshold
          /\ \A w \in WorkloadIDs : workloads[w] # i

\* Less has been called on two items that are not nil.
LessCalledOnItems == scored # <<>> /\ scored.a # NoItem /\ scored.b # NoItem

\* The criticality a score is computed from, for an item as it is given.
ScoredCriticality(item) ==
    IF item.hasCtx /\ item.criticality >= 1 /\ item.criticality <= 5
       THEN item.criticality
       ELSE 3

(***************************************************************************)
(* C32: a policy whose registry reference is nil scores every item as      *)
(* 0.4 * criticality / 5, with average wait and request rate 0 whatever    *)
(* the registry of the process holds, and Less puts the item of the higher *)
(* criticality first.                                                      *)
(***************************************************************************)
NilRegistryOrdersByCriticality ==
    (LessCalledOnItems /\ ~wired)
        => /\ scored.scoreA.num = CritUnit * ScoredCriticality(scored.a) * scored.scoreA.den
           /\ scored.scoreB.num = CritUnit * ScoredCriticality(scored.b) * scored.scoreB.den
           /\ ScoredCriticality(scored.a) > ScoredCriticality(scored.b) => scored.less
           /\ ScoredCriticality(scored.a) < ScoredCriticality(scored.b) => ~scored.less

\* Without a registry, an item of criticality 1 whose workload has an
\* average wait of 60 s was not put before an item of criticality 5.
NilRegistryIgnoresWaitReached ==
    /\ LessCalledOnItems
    /\ ~wired
    /\ workloads["w1"] # NoObj
    /\ objs[workloads["w1"]].AverageWaitTime = MaxWaitMs
    /\ scored.a.hasCtx /\ scored.a.workloadID = "w1" /\ scored.a.criticality = 1
    /\ scored.b.hasCtx /\ scored.b.criticality = 5
    /\ ~scored.less

(***************************************************************************)
(* C33: Less(nil, nil) and Less(nil, x) are false and Less(x, nil) is true *)
(* for every item x that is not nil.                                       *)
(***************************************************************************)
NilItemsOrderedLast ==
    scored # <<>>
        => /\ scored.a = NoItem => ~scored.less
           /\ (scored.a # NoItem /\ scored.b = NoItem) => scored.less

\* Less(x, nil) was called on an item of the lowest criticality and
\* returned true.
LessAgainstNilReached ==
    /\ scored # <<>>
    /\ scored.a # NoItem
    /\ scored.a.criticality = 1
    /\ scored.b = NoItem
    /\ scored.less

(***************************************************************************)
(* C34: an item without a WorkloadContext is scored under the workload id  *)
(* "default" with criticality 3: its score is that of the "default" entry  *)
(* of the registry; with a nil registry it is 0.4 * 3 / 5 on every         *)
(* evaluation.                                                             *)
(***************************************************************************)
NoContextScoredAsDefault ==
    (scored # <<>> /\ scored.a # NoItem /\ ~scored.a.hasCtx)
        => /\ scored.workloadID = "default"
           /\ scored.criticality = 3
           /\ wired => ScoreEqual(scored.scoreA,
                          ScoreOf(IF workloads["default"] = NoObj THEN 0
                                  ELSE objs[workloads["default"]].AverageWaitTime,
                                  3, GetRequestRate("default", now)))
           /\ ~wired => /\ scored.scoreA.num = CritUnit * 3 * scored.scoreA.den
                        /\ ScoreEqual(scored.again, scored.scoreA)

\* An item without a context, its workload id field naming a workload
\* without dispatches, was scored with the average wait of the "default"
\* entry.
NoContextScoredWithDefaultEntryReached ==
    /\ scored # <<>> /\ scored.a # NoItem /\ ~scored.a.hasCtx
    /\ wired
    /\ scored.a.workloadID = "w1"
    /\ workloads["w1"] # NoObj
    /\ objs[workloads["w1"]].AverageWaitTime = 0
    /\ workloads["default"] # NoObj
    /\ objs[workloads["default"]].AverageWaitTime = MaxWaitMs
    /\ ScoreGreater(scored.scoreA, [num |-> CritUnit * 3, den |-> 1])

(***************************************************************************)
(* C35: whatever the number of Stop calls and whichever goroutines make    *)
(* them, one after another or at once, no call panics: close is never      *)
(* executed on the closed stopCleanup channel.                             *)
(***************************************************************************)
StopNeverPanics == ~panicked

StopPanickedReached == panicked

(***************************************************************************)
(* C40: once stopCleanup is closed, cleanupLoop eventually returns with    *)
(* its ticker stopped, and from then on no reaper pass runs; a process     *)
(* ended by a panic has no goroutines left.                                *)
(***************************************************************************)
StoppedLoopExits ==
    (stopCleanup = "closed")
        ~> [](panicked \/ (reaper.pc = "exited" /\ cleanupTicker.stopped))

LoopExitedAfterPassReached ==
    /\ ~panicked
    /\ reaper.pc = "exited"
    /\ cleanupTicker.stopped
    /\ reaper.runs > 0

(***************************************************************************)
(* C36: of two items of the same workload and the same criticality, Less   *)
(* puts the one enqueued earlier first, also when the clock advances       *)
(* between the two computeScore calls of the Less call.                    *)
(***************************************************************************)
SameWorkloadOrderedByEnqueueTime ==
    Evaluated =>
        \A a, b \in ItemIds :
            (/\ items[a].workloadID = items[b].workloadID
             /\ items[a].criticality = items[b].criticality
             /\ items[a].enqueueTime < items[b].enqueueTime)
            => lessTable.less[a, b] /\ ~lessTable.less[b, a]

\* The same with both computeScore calls reading the same clock value.
SameWorkloadOrderedByEnqueueTimeNoDrift ==
    Evaluated /\ lessTable.drift = 0 =>
        \A a, b \in ItemIds :
            (/\ items[a].workloadID = items[b].workloadID
             /\ items[a].criticality = items[b].criticality
             /\ items[a].enqueueTime < items[b].enqueueTime)
            => lessTable.less[a, b] /\ ~lessTable.less[b, a]

\* Entry i has another AverageWaitTime or DispatchedCount after the step.
WaitStatsChanged(i) ==
    \/ objs'[i].AverageWaitTime # objs[i].AverageWaitTime
    \/ objs'[i].DispatchedCount # objs[i].DispatchedCount

CompletionStampsLastRequestTime ==
    [][\A g \in Goroutines :
          pc[g] = "completed_update" /\ pc'[g] # "completed_update"
              => objs'[loc[g].metrics].LastRequestTime = now]_vars

\* What the code does instead: the completion leaves LastRequestTime as it
\* was.
CompletionKeepsLastRequestTime ==
    [][\A g \in Goroutines :
          pc[g] = "completed_update" /\ pc'[g] # "completed_update"
              => objs'[loc[g].metrics].LastRequestTime
                    = objs[loc[g].metrics].LastRequestTime]_vars

LessRunning == IF scored = NoLess THEN FALSE ELSE scored.state = "scoredA"

(***************************************************************************)
(* C39: no Less call is running while the runner injects, no policy's      *)
(* registry reference is assigned while a Less call is between its two     *)
(* computeScore calls, and the two calls of one Less read the same         *)
(* reference.                                                              *)
(***************************************************************************)
LessSeesOneRegistry ==
    [][/\ (scored' # NoLess /\ scored'.state = "scoredA") => pc' # "inject"
       /\ (\E i \in DOMAIN policies : policies'[i] # policies[i]) => ~LessRunning
       /\ (scored' # NoLess /\ scored'.state = "returned")
             => scored'.registryA = scored'.registryB
      ]_vars

\* A Less call on a band created after the injection has returned, both of
\* its computeScore calls having read the injected registry.
LessOnInjectedPolicyReached ==
    /\ scored # NoLess
    /\ scored.state = "returned"
    /\ bands[scored.priority].dynamic
    /\ scored.registryA = TheRegistry
    /\ scored.registryB = TheRegistry
    /\ \E p \in StaticBands : bands[p].policy # scored.policy

====
